---- MODULE Spec2Model ----
(***************************************************************************)
(* A model of the redis server of this repository: the message model and   *)
(* its byte encoding, the command parser, the expiring store, the leader's *)
(* connection loop with its upgrade to a replication session over the      *)
(* broadcast channel, and the follower's replication client.               *)
(*                                                                         *)
(* Strings are sequences of one-character strings, so that lengths,        *)
(* upper-casing and decimal conversion are computed, not assumed.          *)
(***************************************************************************)
EXTENDS Integers, Sequences, FiniteSets, TLC

VARIABLES
    now,        \* the reading of Utc::now(), in milliseconds
    store,      \* Db.storage: key -> <<>> (absent) or <<entry>>
    nset,       \* ghost: number of store mutations so far
    lastSet,    \* ghost: per key, the most recent successful SET (<<>> if none)
    chan,       \* the broadcast channel: every event enqueued, oldest first
    pc,         \* per connection: position of its task
    batch,      \* per connection: frames of the current read not yet dispatched
    cur,        \* per connection: the SET being executed between db.set and publish
    ack,        \* per connection: MessageHandler.replication_client_ack
    rx,         \* per connection: <<>> or <<next>>, the receiver's next position
    sub,        \* ghost: per connection, the channel position at subscription
    sock,       \* per connection: the frames written to its socket, in order
    lastGet,    \* ghost: per connection, the last GET executed and its reply
    reads,      \* number of frames read from client sockets so far
    recvd,      \* ghost: per connection, the frames decoded from its socket, in order
    fpc,        \* follower client: position in start_replication
    fin,        \* follower link: frames sent by the leader, not yet read
    fout,       \* follower link: frames written by the follower
    frecv,      \* ghost: the reads made by the follower, each a sequence of frames
    fhandled,   \* ghost: the frames passed to ReplicationHandler::handle
    facks,      \* ghost: per ACK written, the frames received before its GETACK
    bytes_acknowledged, \* ReplicationHandler.bytes_acknowledged
    fsent,      \* number of frames the leader has written to the follower link
    peer,       \* pair scenario: the store, counters and channel of the follower process
    wire,       \* codec scenario: <<>> or the frames encoded and their bytes
    decoded     \* codec scenario: <<>> or the result of parse_data on the bytes

vars == <<now, store, nset, lastSet, chan, pc, batch, cur, ack, rx, sub, sock,
          lastGet, reads, recvd, fpc, fin, fout, frecv, fhandled, facks,
          bytes_acknowledged, fsent, peer, wire, decoded>>

codecVars == <<wire, decoded>>

leaderVars == <<pc, batch, cur, ack, rx, sub, sock, lastGet, reads, recvd>>

followerVars ==
    <<fpc, fin, fout, frecv, fhandled, facks, bytes_acknowledged, fsent, peer,
      codecVars>>

(***************************************************************************)
(* Bounds of the model.                                                    *)
(***************************************************************************)
MaxTime == 2

MaxStoreFrames == 3

MaxReplFrames == 4

MaxBatch == 2

Capacity == 2

MaxStream == 2

MaxConnFrames == 3

MaxProcFrames == 2

MaxCodecFrames == 2

MaxGoodFrames == 1

MaxCmdFrames == 3

MaxByteReads == 2

MaxPairFrames == 2

\* The integers of the model: an i64 holds -MaxI64 - 1 .. MaxI64, and a
\* DateTime<Utc> holds the milliseconds -MaxDate .. MaxDate
MaxI64 == 1000

MaxDate == 100

\* Connections, named in the order the listener accepts them
Conns == {"c1", "c2", "c3"}

Before(d, c) == <<d, c>> \in {<<"c1", "c2">>, <<"c1", "c3">>, <<"c2", "c3">>}

(***************************************************************************)
(* Options and small helpers.                                              *)
(***************************************************************************)
None == <<>>

Some(x) == <<x>>

IsSome(o) == Len(o) = 1

Unwrap(o) == o[1]

Range(s) == {s[i] : i \in 1..Len(s)}


(***************************************************************************)
(* Characters and strings.                                                 *)
(***************************************************************************)
LowerLetters ==
    <<"a","b","c","d","e","f","g","h","i","j","k","l","m",
      "n","o","p","q","r","s","t","u","v","w","x","y","z">>

UpperLetters ==
    <<"A","B","C","D","E","F","G","H","I","J","K","L","M",
      "N","O","P","Q","R","S","T","U","V","W","X","Y","Z">>

Digits == <<"0","1","2","3","4","5","6","7","8","9">>

UpperChar(c) ==
    IF \E i \in 1..26 : LowerLetters[i] = c
    THEN UpperLetters[CHOOSE i \in 1..26 : LowerLetters[i] = c]
    ELSE c

\* str::to_uppercase on ASCII text
to_uppercase(s) == [i \in 1..Len(s) |-> UpperChar(s[i])]

IsDigit(c) == \E i \in 1..10 : Digits[i] = c

DigitVal(c) == (CHOOSE i \in 1..10 : Digits[i] = c) - 1

RECURSIVE NatToString(_)
NatToString(n) ==
    IF n < 10 THEN <<Digits[n + 1]>>
    ELSE NatToString(n \div 10) \o <<Digits[(n % 10) + 1]>>

\* i64::to_string / usize::to_string
to_string(n) == IF n < 0 THEN <<"-">> \o NatToString(-n) ELSE NatToString(n)

RECURSIVE DigitsValue(_)
DigitsValue(s) ==
    IF Len(s) = 0 THEN 0
    ELSE DigitsValue(SubSeq(s, 1, Len(s) - 1)) * 10 + DigitVal(s[Len(s)])

AllDigits(s) == Len(s) > 0 /\ \A i \in 1..Len(s) : IsDigit(s[i])

\* The value fits an i64
InI64(n) == -MaxI64 - 1 <= n /\ n <= MaxI64

\* str::parse::<i64>: an optional sign, then at least one digit, the value
\* within the range of i64; None otherwise
parse_i64(s) ==
    IF Len(s) > 0 /\ s[1] \in {"-", "+"}
    THEN IF AllDigits(Tail(s))
            /\ InI64(IF s[1] = "-" THEN -DigitsValue(Tail(s)) ELSE DigitsValue(Tail(s)))
         THEN Some(IF s[1] = "-" THEN -DigitsValue(Tail(s)) ELSE DigitsValue(Tail(s)))
         ELSE None
    ELSE IF AllDigits(s) /\ InI64(DigitsValue(s)) THEN Some(DigitsValue(s)) ELSE None

StartsWith(s, p) == Len(s) >= Len(p) /\ SubSeq(s, 1, Len(p)) = p

(***************************************************************************)
(* message.rs: the Message variants and their byte encoding.               *)
(***************************************************************************)
SimpleString(s) == [t |-> "SimpleString", v |-> s]

BulkString(s) == [t |-> "BulkString", v |-> s]

NullBulkString == [t |-> "NullBulkString", v |-> <<>>]

Integer(n) == [t |-> "Integer", v |-> <<n>>]

Array(a) == [t |-> "Array", v |-> a]

RdbFile(b) == [t |-> "RdbFile", v |-> b]

CRLF == <<"\r", "\n">>

add_len(n) == to_string(n) \o CRLF

RECURSIVE to_data(_)
RECURSIVE ConcatData(_)
ConcatData(ms) ==
    IF Len(ms) = 0 THEN <<>> ELSE to_data(Head(ms)) \o ConcatData(Tail(ms))

to_data(m) ==
    CASE m.t = "SimpleString" -> <<"+">> \o m.v \o CRLF
      [] m.t = "BulkString" -> <<"$">> \o add_len(Len(m.v)) \o m.v \o CRLF
      [] m.t = "NullBulkString" -> <<"$", "-", "1">> \o CRLF
      [] m.t = "Integer" -> <<":">> \o to_string(m.v[1]) \o CRLF
      [] m.t = "Array" -> <<"*">> \o add_len(Len(m.v)) \o ConcatData(m.v)
      [] m.t = "RdbFile" -> <<"$">> \o add_len(Len(m.v)) \o m.v

(***************************************************************************)
(* parser.rs: the decoder.  Bytes are one-character strings.  A result of  *)
(* parse is [r |-> "Ok", message, rest], [r |-> "Err"] (a ParseError) or   *)
(* [r |-> "Panic"] (a slice or an index out of range); a result of         *)
(* parse_data is [r |-> "Ok", messages], [r |-> "Err"] or [r |-> "Panic"]. *)
(***************************************************************************)
Parsed(message, rest) == [r |-> "Ok", message |-> message, rest |-> rest]

ParseErr == [r |-> "Err"]

ParsePanic == [r |-> "Panic"]

\* data[from..], with from counted from 0
SplitOff(data, from) == SubSeq(data, from + 1, Len(data))

\* find_linebreak: the position of \r in the first \r\n, counted from 0; -1 for
\* None, -2 where data.len() - 1 underflows
find_linebreak(data) ==
    IF Len(data) = 0 THEN -2
    ELSE LET found == {i \in 1..(Len(data) - 1) :
                          data[i] = "\r" /\ data[i + 1] = "\n"}
         IN IF found = {} THEN -1
            ELSE (CHOOSE i \in found : \A j \in found : i <= j) - 1

\* convert_to_number: -1 for the error
convert_to_number(data) ==
    IF \A i \in 1..Len(data) : IsDigit(data[i]) THEN DigitsValue(data) ELSE -1

\* read_number: [r, size, rest]
read_number(data) ==
    LET pos == find_linebreak(data) IN
    IF pos = -2 THEN [r |-> "Panic"]
    ELSE IF pos = -1 THEN [r |-> "Err"]
    ELSE IF convert_to_number(SubSeq(data, 1, pos)) = -1 THEN [r |-> "Err"]
    ELSE [r |-> "Ok", size |-> convert_to_number(SubSeq(data, 1, pos)),
          rest |-> SplitOff(data, pos + 2)]

parse_simple_string(data) ==
    LET pos == find_linebreak(data) IN
    IF pos = -2 THEN ParsePanic
    ELSE IF pos = -1 THEN ParseErr
    ELSE Parsed(SimpleString(SubSeq(data, 1, pos)), SplitOff(data, pos + 2))

REDIS_MAGIC == <<"R","E","D","I","S">>

\* The test of parse_bulk_string for the rdb file: "Yes", "No" or "Panic".  The
\* slice data[size + 1..size + 2] holds one byte and so never equals "\r\n";
\* taking it panics when fewer than size + 2 bytes are left.
RdbTest(size, data) ==
    IF size <= 5 THEN "No"
    ELSE IF Len(data) # size /\ Len(data) < size + 2 THEN "Panic"
    ELSE IF SubSeq(data, 1, 5) = REDIS_MAGIC THEN "Yes" ELSE "No"

parse_bulk_string(data) ==
    IF Len(data) = 0 THEN ParseErr
    ELSE IF data[1] = "-"
    THEN IF Len(data) < 4 THEN ParsePanic
         ELSE IF SubSeq(data, 2, 4) # <<"1", "\r", "\n">> THEN ParseErr
         ELSE Parsed(NullBulkString, SplitOff(data, 4))
    ELSE LET n == read_number(data) IN
         IF n.r # "Ok" THEN [r |-> n.r]
         ELSE CASE RdbTest(n.size, n.rest) = "Panic" -> ParsePanic
                [] RdbTest(n.size, n.rest) = "Yes" ->
                     Parsed(RdbFile(SubSeq(n.rest, 1, n.size)), SplitOff(n.rest, n.size))
                [] OTHER ->
                     IF Len(n.rest) < n.size + 2 THEN ParsePanic
                     ELSE Parsed(BulkString(SubSeq(n.rest, 1, n.size)),
                                 SplitOff(n.rest, n.size + 2))

parse_integer(data) ==
    IF Len(data) = 0 THEN ParsePanic
    ELSE LET negative == data[1] = "-"
             digits == IF data[1] \in {"-", "+"} THEN SplitOff(data, 1) ELSE data
             n == read_number(digits)
         IN IF n.r # "Ok" THEN [r |-> n.r]
            ELSE Parsed(Integer(IF negative THEN -n.size ELSE n.size), n.rest)

RECURSIVE parse(_)
RECURSIVE parse_elements(_, _, _)
\* parse_array: the loop over the declared number of elements
parse_elements(count, data, result) ==
    IF count = 0 THEN Parsed(Array(result), data)
    ELSE LET e == parse(data) IN
         IF e.r # "Ok" THEN e
         ELSE parse_elements(count - 1, e.rest, Append(result, e.message))

parse_array(data) ==
    LET n == read_number(data) IN
    IF n.r # "Ok" THEN [r |-> n.r] ELSE parse_elements(n.size, n.rest, <<>>)

parse(data) ==
    IF Len(data) = 0 THEN ParseErr
    ELSE CASE data[1] = "+" -> parse_simple_string(Tail(data))
           [] data[1] = "$" -> parse_bulk_string(Tail(data))
           [] data[1] = ":" -> parse_integer(Tail(data))
           [] data[1] = "*" -> parse_array(Tail(data))
           [] OTHER -> ParseErr

RECURSIVE parse_loop(_, _)
parse_loop(data, result) ==
    IF Len(data) = 0 THEN [r |-> "Ok", messages |-> result]
    ELSE LET e == parse(data) IN
         IF e.r # "Ok" THEN [r |-> e.r]
         ELSE parse_loop(e.rest, Append(result, e.message))

parse_data(data) == parse_loop(data, <<>>)

(***************************************************************************)
(* command_parser.rs: lifting an Array frame into a Command.               *)
(* A result is [r |-> "Ok", cmd |-> c], [r |-> "Err"] (an Err value) or    *)
(* [r |-> "Panic"] (an index out of bounds or an unwrap of a failed parse).*)
(***************************************************************************)
PING == <<"P","I","N","G">>

ECHO == <<"E","C","H","O">>

SET == <<"S","E","T">>

GET == <<"G","E","T">>

INFO == <<"I","N","F","O">>

REPLCONF == <<"R","E","P","L","C","O","N","F">>

PSYNC == <<"P","S","Y","N","C">>

PX == <<"P","X">>

Ok(c) == [r |-> "Ok", cmd |-> c]

Err == [r |-> "Err", cmd |-> <<>>]

Panic == [r |-> "Panic", cmd |-> <<>>]

\* get_expire_time: the fifth element is read whenever a fourth one exists
get_expire_time(messages) ==
    IF Len(messages) >= 4
    THEN IF Len(messages) < 5 THEN Panic
         ELSE IF messages[5].t = "BulkString"
              THEN IF IsSome(parse_i64(messages[5].v))
                   THEN Ok(Some(Unwrap(parse_i64(messages[5].v))))
                   ELSE Panic
              ELSE Err
    ELSE Ok(None)

\* The name carried by Command::Replconf, as ReplicationHandler::handle reads it
ReplconfName(vec) ==
    IF Len(vec) >= 2 /\ vec[2].t = "BulkString" THEN Some(vec[2].v) ELSE None

handle_array(vec) ==
    IF vec[1].t # "BulkString" THEN Err
    ELSE LET command_string == to_uppercase(vec[1].v) IN
         CASE command_string = PING -> Ok([c |-> "Ping"])
           [] command_string = ECHO ->
                IF Len(vec) < 2 THEN Panic ELSE Ok([c |-> "Echo", message |-> vec[2]])
           [] command_string = SET ->
                IF Len(vec) < 3 THEN Panic
                ELSE LET expire_time == get_expire_time(vec) IN
                     IF expire_time.r # "Ok" THEN expire_time
                     ELSE Ok([c |-> "Set", key |-> vec[2], value |-> vec[3],
                              expire_time |-> expire_time.cmd])
           [] command_string = GET ->
                IF Len(vec) < 2 THEN Panic ELSE Ok([c |-> "Get", key |-> vec[2]])
           [] command_string = INFO ->
                Ok([c |-> "Info",
                    sections |-> IF Len(vec) >= 2 THEN <<vec[2]>> ELSE <<>>])
           [] command_string = REPLCONF ->
                Ok([c |-> "Replconf", name |-> ReplconfName(vec)])
           [] command_string = PSYNC -> Ok([c |-> "Psync"])
           [] OTHER -> Err

\* A parser that takes a command it does not know for a PING
parse_command_lenient(message) ==
    IF message.t = "Array" /\ Len(message.v) > 0
    THEN IF handle_array(message.v).r = "Err"
         THEN Ok([c |-> "Ping"])
         ELSE handle_array(message.v)
    ELSE Err

parse_command(message) ==
    IF message.t = "Array" /\ Len(message.v) > 0 THEN handle_array(message.v) ELSE Err

\* Command::to_message for the commands that are republished (Set)
to_message(command) ==
    CASE command.c = "Ping" -> Array(<<BulkString(PING)>>)
      [] command.c = "Echo" -> Array(<<BulkString(ECHO), command.message>>)
      [] command.c = "Get" -> Array(<<BulkString(GET), command.key>>)
      [] command.c = "Set" ->
           Array(<<BulkString(SET), command.key, command.value>>
                 \o (IF IsSome(command.expire_time)
                     THEN <<BulkString(SET),
                            BulkString(to_string(Unwrap(command.expire_time)))>>
                     ELSE <<>>))

get_ping_command == Array(<<BulkString(PING)>>)

get_replconf_command(name, value) ==
    Array(<<BulkString(REPLCONF), BulkString(name), BulkString(value)>>)

get_psync_command(master_replid, master_offset) ==
    Array(<<BulkString(PSYNC), BulkString(master_replid),
            BulkString(to_string(master_offset))>>)

(***************************************************************************)
(* db.rs: the store.  An entry is [value, expire, seq]; expire is None or  *)
(* Some(absolute time); seq is a ghost tag, the ordinal of the mutation    *)
(* that wrote the entry.                                                   *)
(***************************************************************************)
EmptyDb == [k \in {} |-> <<>>]

\* TimeDelta::try_milliseconds: None below -i64::MAX milliseconds
try_milliseconds(millis) == IF millis < -MaxI64 THEN None ELSE Some(millis)

\* Utc::now().add(delta) leaves the range of DateTime<Utc> and panics
AddOverflows(t, delta) == t + delta > MaxDate \/ t + delta < -MaxDate

\* Db::set panics: the time delta was built and adding it to now overflows
DbSetPanics(expire_milliseconds, t) ==
    /\ IsSome(expire_milliseconds)
    /\ IsSome(try_milliseconds(Unwrap(expire_milliseconds)))
    /\ AddOverflows(t, Unwrap(try_milliseconds(Unwrap(expire_milliseconds))))

\* Db::get: None when the key is absent, the value when the entry has no
\* expiry or now <= expiry, NullBulkString when it has expired
DbGetStrict(storage, key, t) ==
    IF key \notin DOMAIN storage THEN None
    ELSE LET e == storage[key] IN
         IF ~IsSome(e.expire) \/ t < Unwrap(e.expire)
         THEN Some(e.value)
         ELSE Some(NullBulkString)

DbGet(storage, key, t) ==
    IF key \notin DOMAIN storage THEN None
    ELSE LET e == storage[key] IN
         IF ~IsSome(e.expire) \/ t <= Unwrap(e.expire)
         THEN Some(e.value)
         ELSE Some(NullBulkString)

Insert(storage, key, entry) ==
    [k \in (DOMAIN storage) \cup {key} |-> IF k = key THEN entry ELSE storage[k]]

\* A set that keeps the expiry of the entry it overwrites
DbSetKeepExpiry(storage, key, value, expire_milliseconds, t, seq) ==
    Some(Insert(storage, key,
        [value |-> value,
         expire |-> IF key \in DOMAIN storage /\ IsSome(storage[key].expire)
                    THEN storage[key].expire
                    ELSE IF IsSome(expire_milliseconds)
                         THEN Some(t + Unwrap(expire_milliseconds)) ELSE None,
         seq |-> seq]))

DbSetDropNonPositive(storage, key, value, expire_milliseconds, t, seq) ==
    Some(Insert(storage, key,
        [value |-> value,
         expire |-> IF IsSome(expire_milliseconds) /\ Unwrap(expire_milliseconds) > 0
                    THEN Some(t + Unwrap(expire_milliseconds)) ELSE None,
         seq |-> seq]))

DbSetNoInsert(storage, key, value, expire_milliseconds, t, seq) == Some(storage)

\* A set that stores the entry without expiry when no time delta can be built
DbSetWithoutBadExpiry(storage, key, value, expire_milliseconds, t, seq) ==
    Some(Insert(storage, key,
        [value |-> value,
         expire |-> IF IsSome(expire_milliseconds)
                       /\ IsSome(try_milliseconds(Unwrap(expire_milliseconds)))
                    THEN Some(t + Unwrap(expire_milliseconds)) ELSE None,
         seq |-> seq]))

\* A set without PX that leaves the expiry of the entry it overwrites in place
DbSetInheritExpiry(storage, key, value, expire_milliseconds, t, seq) ==
    IF IsSome(expire_milliseconds)
    THEN LET timedelta == try_milliseconds(Unwrap(expire_milliseconds)) IN
         IF IsSome(timedelta)
         THEN Some(Insert(storage, key,
                  [value |-> value, expire |-> Some(t + Unwrap(timedelta)), seq |-> seq]))
         ELSE None
    ELSE Some(Insert(storage, key,
             [value |-> value,
              expire |-> IF key \in DOMAIN storage THEN storage[key].expire ELSE None,
              seq |-> seq]))

\* Db::set: Some(the new map), or None when the time delta cannot be built
DbSet(storage, key, value, expire_milliseconds, t, seq) ==
    IF IsSome(expire_milliseconds)
    THEN LET timedelta == try_milliseconds(Unwrap(expire_milliseconds)) IN
         IF IsSome(timedelta)
         THEN Some(Insert(storage, key,
                  [value |-> value, expire |-> Some(t + Unwrap(timedelta)), seq |-> seq]))
         ELSE None
    ELSE Some(Insert(storage, key, [value |-> value, expire |-> None, seq |-> seq]))

(***************************************************************************)
(* handler/client_server.rs: MessageHandler.                               *)
(***************************************************************************)
master_replid ==
    <<"8","3","7","1","b","4","f","b","1","1","5","5","b","7","1","f","4","a","0","4",
      "d","3","e","1","b","c","3","e","1","8","c","4","a","9","9","0","a","e","e","b">>

master_repl_offset == 0

OK == <<"O","K">>

PONG == <<"P","O","N","G">>

FULLRESYNC == <<"F","U","L","L","R","E","S","Y","N","C">>

REDIS0011 == <<"R","E","D","I","S","0","0","1","1">>

\* get_rdb_file: 88 bytes that begin with the magic; the rest is opaque
RdbLen == 88

get_rdb_file == RdbFile(REDIS0011 \o [i \in 1..(RdbLen - Len(REDIS0011)) |-> "?"])

Text(str) ==
    CASE str = "role:master" -> <<"r","o","l","e",":","m","a","s","t","e","r">>
      [] str = "role:slave" -> <<"r","o","l","e",":","s","l","a","v","e">>
      [] str = "master_replid:" ->
           <<"m","a","s","t","e","r","_","r","e","p","l","i","d",":">>
      [] str = "master_repl_offset:" ->
           <<"m","a","s","t","e","r","_","r","e","p","l","_","o","f","f","s","e","t",":">>
      [] str = "replication" -> <<"r","e","p","l","i","c","a","t","i","o","n">>

\* A replication section that reports the role master whatever the role is
build_replication_info_master(role) ==
    BulkString(Text("role:master")
               \o <<"\n">> \o Text("master_replid:") \o master_replid
               \o <<"\n">> \o Text("master_repl_offset:") \o to_string(master_repl_offset))

build_replication_info(role) ==
    BulkString(Text(IF role = "Leader" THEN "role:master" ELSE "role:slave")
               \o <<"\n">> \o Text("master_replid:") \o master_replid
               \o <<"\n">> \o Text("master_repl_offset:") \o to_string(master_repl_offset))

\* A FULLRESYNC reply sent as a BulkString
FullResyncAsBulkString ==
    BulkString(FULLRESYNC \o <<" ">> \o master_replid \o <<" ", "0">>)

FullResyncReply == SimpleString(FULLRESYNC \o <<" ">> \o master_replid \o <<" ", "0">>)

\* A handler that takes every command it can parse for a PSYNC
handle_as_psync(storage, t, role, message) ==
    IF parse_command(message).r = "Ok"
    THEN [k |-> "Psync", replies |-> <<FullResyncReply, get_rdb_file>>]
    ELSE [k |-> parse_command(message).r]

\* MessageHandler::handle, up to its effects on the store and the channel:
\* [k |-> "Reply", replies] for the commands that only answer,
\* [k |-> "Set", cmd] for a SET (executed by SetStep and PublishStep),
\* [k |-> "Psync", replies], [k |-> "Err"] and [k |-> "Panic"].
handle(storage, t, role, message) ==
    LET parsed == parse_command(message) IN
    IF parsed.r = "Err" THEN [k |-> "Err"]
    ELSE IF parsed.r = "Panic" THEN [k |-> "Panic"]
    ELSE LET command == parsed.cmd IN
         CASE command.c = "Ping" -> [k |-> "Reply", replies |-> <<BulkString(PONG)>>]
           [] command.c = "Echo" -> [k |-> "Reply", replies |-> <<command.message>>]
           [] command.c = "Get" ->
                LET value == DbGet(storage, command.key, t) IN
                [k |-> "Reply",
                 replies |-> <<IF IsSome(value) THEN Unwrap(value) ELSE NullBulkString>>]
           [] command.c = "Set" -> [k |-> "Set", cmd |-> command]
           [] command.c = "Info" ->
                IF Len(command.sections) # 1
                   \/ command.sections[1] # BulkString(Text("replication"))
                THEN [k |-> "Err"]
                ELSE [k |-> "Reply", replies |-> <<build_replication_info(role)>>]
           [] command.c = "Replconf" -> [k |-> "Reply", replies |-> <<SimpleString(OK)>>]
           [] command.c = "Psync" ->
                [k |-> "Psync", replies |-> <<FullResyncReply, get_rdb_file>>]

\* The frame a SET puts on the broadcast channel
SetEvent(command, message) == to_message(command)

(***************************************************************************)
(* The frames clients send to the listener.                                *)
(***************************************************************************)
KeyK == BulkString(<<"k">>)

ValA == BulkString(<<"a">>)

ValB == BulkString(<<"b">>)

SetPlain == Array(<<BulkString(SET), KeyK, ValA>>)

SetPx1 ==
    Array(<<BulkString(<<"s","e","t">>), KeyK, ValB, BulkString(<<"p","x">>),
            BulkString(<<"1">>)>>)

SetPx0 == Array(<<BulkString(SET), KeyK, ValA, BulkString(PX), BulkString(<<"0">>)>>)

SetPxNeg == Array(<<BulkString(SET), KeyK, ValB, BulkString(PX), BulkString(<<"-","1">>)>>)

GetK == Array(<<BulkString(GET), KeyK>>)

PsyncFrame == get_psync_command(<<"?">>, -1)

EchoA == Array(<<BulkString(ECHO), ValA>>)

InfoFrame == Array(<<BulkString(INFO), BulkString(<<"r","e","p","l","i","c","a","t","i","o","n">>)>>)

\* A command the parser does not know, and an ECHO without its argument
UnknownFrame == Array(<<BulkString(<<"N","O","P","E">>)>>)

EchoNoArg == Array(<<BulkString(ECHO)>>)

\* Frames whose arity does not fit their command
GetNoArg == Array(<<BulkString(GET)>>)

SetNoValue == Array(<<BulkString(SET), KeyK>>)

SetOptNoValue == Array(<<BulkString(SET), KeyK, ValB, BulkString(PX)>>)

SetPxNonDecimal ==
    Array(<<BulkString(SET), KeyK, ValB, BulkString(PX), BulkString(<<"1", "x">>)>>)

\* A SET whose PX is i64::MIN, for which no time delta exists, and a SET whose
\* PX is i64::MAX, which no DateTime can hold
SetPxMin ==
    Array(<<BulkString(SET), KeyK, ValB, BulkString(PX), BulkString(to_string(-MaxI64 - 1))>>)

SetPxHuge ==
    Array(<<BulkString(SET), KeyK, ValB, BulkString(PX), BulkString(to_string(MaxI64))>>)

\* SETs whose option word is not PX: EX with its argument, and NX, which has none
SetEx1 == Array(<<BulkString(SET), KeyK, ValB, BulkString(<<"E","X">>), BulkString(<<"1">>)>>)

SetNx == Array(<<BulkString(SET), KeyK, ValB, BulkString(<<"N","X">>)>>)

ReplconfCapa == get_replconf_command(<<"c","a","p","a">>, <<"p","s","y","n","c","2">>)

ClientFrames == {SetPlain, SetPx1, SetPx0, SetPxNeg, GetK, PsyncFrame}

\* The frames of the store scenario and of the replication scenario
StoreFrames == {SetPlain, SetPx1, SetPx0, SetPxNeg, GetK}

ReplFrames == {SetPlain, SetPx1, PsyncFrame}

\* The frames of the option scenario
OptionFrames == {SetPlain, SetPx1, SetEx1, SetNx, GetK}

\* The frames of the process scenario
ProcFrames == {InfoFrame, GetK, SetPlain}

\* The frames of the connection scenario: commands with distinct replies, a
\* frame parse_command refuses and a frame on which it panics
ConnFrames == {EchoA, SetPlain, GetK, PsyncFrame, UnknownFrame, EchoNoArg}

\* The frames of the command scenario: every command, well formed and not
CmdFrames ==
    {get_ping_command, EchoA, GetK, InfoFrame, ReplconfCapa, SetPlain, PsyncFrame,
     EchoNoArg, GetNoArg, SetNoValue, SetOptNoValue, SetPxNonDecimal, UnknownFrame,
     SetPxMin, SetPxHuge}

RECURSIVE SeqsUpTo(_, _)
SeqsUpTo(S, n) ==
    IF n = 0 THEN {<<>>}
    ELSE LET shorter == SeqsUpTo(S, n - 1) IN
         shorter \cup {Append(q, x) : q \in shorter, x \in S}

\* What one read of a client socket can decode to, its frames drawn from F
Batches(F, n) == SeqsUpTo(F, n) \ {<<>>}

Min(a, b) == IF a <= b THEN a ELSE b

(***************************************************************************)
(* The broadcast channel (tokio::sync::broadcast).  chan holds every value *)
(* enqueued; a receiver at position next has read chan[1..next].  Only the *)
(* last Capacity values are retained.                                      *)
(***************************************************************************)
Receivers == {c \in Conns : IsSome(rx[c])}

\* Sender::send: the value is enqueued unless no receiver exists
distribute_message(ch, event, receivers) ==
    IF receivers = {} THEN ch ELSE Append(ch, event)

Lagged(next, tail) == tail - next > Capacity

\* Receiver::recv: the position of the value returned, and the receiver's
\* position afterwards
RecvSlotNewestFirst(next, tail, first) == tail - (next - first)

RecvSlot(next, tail, first) == next + 1

RecvNextStay(next) == next

RecvNext(next) == next + 1

(***************************************************************************)
(* server.rs: the listener and the connection tasks.                       *)
(* pc: "idle" (not accepted yet), "serving" (awaiting a read), "dispatch"  *)
(* (handling the frames of a read), "publish" (a SET between db.set and    *)
(* the publish), "replicating", and the ends of a task: "eof", "error"     *)
(* (an Err from the parser or the handler), "panic", "io_error", "lagged". *)
(***************************************************************************)
\* main: the process is a follower exactly when it runs a replication client
Role == IF fpc = "off" THEN "Leader" ELSE "Follower"

Reply(m) == [f |-> m, ev |-> 0]

\* The replies of a command written last first
RepliesLastFirst(ms) == [i \in 1..Len(ms) |-> Reply(ms[Len(ms) + 1 - i])]

Replies(ms) == [i \in 1..Len(ms) |-> Reply(ms[i])]

InitLeader ==
    /\ now = 0
    /\ store = EmptyDb
    /\ nset = 0
    /\ lastSet = EmptyDb
    /\ chan = <<>>
    /\ pc = [c \in Conns |-> "idle"]
    /\ batch = [c \in Conns |-> <<>>]
    /\ cur = [c \in Conns |-> None]
    /\ ack = [c \in Conns |-> FALSE]
    /\ rx = [c \in Conns |-> None]
    /\ sub = [c \in Conns |-> None]
    /\ sock = [c \in Conns |-> <<>>]
    /\ lastGet = [c \in Conns |-> None]
    /\ reads = 0
    /\ recvd = [c \in Conns |-> <<>>]
    /\ peer = [store |-> EmptyDb, nset |-> 0, lastSet |-> EmptyDb, chan |-> <<>>]
    /\ wire = None
    /\ decoded = None

InitFollowerOff ==
    /\ fpc = "off"
    /\ fin = <<>>
    /\ fout = <<>>
    /\ frecv = <<>>
    /\ fhandled = <<>>
    /\ facks = <<>>
    /\ bytes_acknowledged = 0
    /\ fsent = 0

Init == InitLeader /\ InitFollowerOff

\* Utc::now() advances
Tick ==
    /\ now < MaxTime
    /\ now' = now + 1
    /\ UNCHANGED <<store, nset, lastSet, chan, leaderVars, followerVars>>

\* A listener that stops accepting once a connection task has ended in an error
AcceptWhileNoneFailed(c) ==
    /\ pc[c] = "idle"
    /\ \A d \in Conns : pc[d] \notin {"error", "panic", "io_error"}
    /\ \A d \in Conns : Before(d, c) => pc[d] # "idle"
    /\ pc' = [pc EXCEPT ![c] = "serving"]
    /\ UNCHANGED <<now, store, nset, lastSet, chan, batch, cur, ack, rx, sub, sock,
                   lastGet, reads, recvd, followerVars>>

\* A listener that stops accepting once the replication client has ended
AcceptWhileReplicating(c) ==
    /\ pc[c] = "idle"
    /\ fpc # "failed"
    /\ \A d \in Conns : Before(d, c) => pc[d] # "idle"
    /\ pc' = [pc EXCEPT ![c] = "serving"]
    /\ UNCHANGED <<now, store, nset, lastSet, chan, batch, cur, ack, rx, sub, sock,
                   lastGet, reads, recvd, followerVars>>

\* start: listener.accept and the spawn of handle_connection
Accept(c) ==
    /\ pc[c] = "idle"
    /\ \A d \in Conns : Before(d, c) => pc[d] # "idle"
    /\ pc' = [pc EXCEPT ![c] = "serving"]
    /\ UNCHANGED <<now, store, nset, lastSet, chan, batch, cur, ack, rx, sub, sock,
                   lastGet, reads, recvd, followerVars>>

\* A task that goes on reading its socket while it is Replicating
ReadInAnyState(c, F, max) ==
    /\ pc[c] \in {"serving", "replicating"}
    /\ reads < max
    /\ \E b \in Batches(F, Min(MaxBatch, max - reads)) :
          /\ batch' = [batch EXCEPT ![c] = b]
          /\ reads' = reads + Len(b)
          /\ recvd' = [recvd EXCEPT ![c] = @ \o b]
    /\ pc' = [pc EXCEPT ![c] = "dispatch"]
    /\ UNCHANGED <<now, store, nset, lastSet, chan, cur, ack, rx, sub, sock,
                   lastGet, followerVars>>

\* handle_connection: read_buf and parse_data
Read(c, F, max) ==
    /\ pc[c] = "serving"
    /\ reads < max
    /\ \E b \in Batches(F, Min(MaxBatch, max - reads)) :
          /\ batch' = [batch EXCEPT ![c] = b]
          /\ reads' = reads + Len(b)
          /\ recvd' = [recvd EXCEPT ![c] = @ \o b]
    /\ pc' = [pc EXCEPT ![c] = "dispatch"]
    /\ UNCHANGED <<now, store, nset, lastSet, chan, cur, ack, rx, sub, sock,
                   lastGet, followerVars>>

\* handle_connection: read_buf returns 0
ReadEof(c) ==
    /\ pc[c] = "serving"
    /\ pc' = [pc EXCEPT ![c] = "eof"]
    /\ UNCHANGED <<now, store, nset, lastSet, chan, batch, cur, ack, rx, sub, sock,
                   lastGet, reads, recvd, followerVars>>

\* handle_connection: the bytes read do not decode, and parse_data returns an
\* error for the whole read
DecodeError(c) ==
    /\ pc[c] = "serving"
    /\ pc' = [pc EXCEPT ![c] = "error"]
    /\ UNCHANGED <<now, store, nset, lastSet, chan, batch, cur, ack, rx, sub, sock,
                   lastGet, reads, recvd, followerVars>>

\* handle_connection: read_buf fails
ReadFails(c) ==
    /\ pc[c] = "serving"
    /\ pc' = [pc EXCEPT ![c] = "io_error"]
    /\ UNCHANGED <<now, store, nset, lastSet, chan, batch, cur, ack, rx, sub, sock,
                   lastGet, reads, recvd, followerVars>>

\* handle_connection: handler.handle on the next frame of the read, and the
\* write of its replies.  For a SET this is the call of db.set.
Dispatch(c) ==
    /\ pc[c] = "dispatch"
    /\ batch[c] # <<>>
    /\ LET message == Head(batch[c])
           res == handle(store, now, Role, message)
       IN
       CASE res.k = "Err" ->
              /\ pc' = [pc EXCEPT ![c] = "error"]
              /\ batch' = [batch EXCEPT ![c] = <<>>]
              /\ UNCHANGED <<store, nset, lastSet, cur, ack, sock, lastGet>>
         [] res.k = "Panic" ->
              /\ pc' = [pc EXCEPT ![c] = "panic"]
              /\ batch' = [batch EXCEPT ![c] = <<>>]
              /\ UNCHANGED <<store, nset, lastSet, cur, ack, sock, lastGet>>
         [] res.k = "Reply" ->
              /\ sock' = [sock EXCEPT ![c] = @ \o Replies(res.replies)]
              /\ batch' = [batch EXCEPT ![c] = Tail(@)]
              /\ lastGet' =
                    IF parse_command(message).cmd.c = "Get"
                    THEN [lastGet EXCEPT ![c] =
                            Some([key |-> parse_command(message).cmd.key,
                                  at |-> now,
                                  reply |-> res.replies[1],
                                  seen |-> IF parse_command(message).cmd.key
                                              \in DOMAIN lastSet
                                           THEN Some(lastSet[parse_command(message).cmd.key])
                                           ELSE None])]
                    ELSE lastGet
              /\ UNCHANGED <<pc, store, nset, lastSet, cur, ack>>
         [] res.k = "Psync" ->
              /\ ack' = [ack EXCEPT ![c] = TRUE]
              /\ sock' = [sock EXCEPT ![c] = @ \o Replies(res.replies)]
              /\ batch' = [batch EXCEPT ![c] = Tail(@)]
              /\ UNCHANGED <<pc, store, nset, lastSet, cur, lastGet>>
         [] res.k = "Set" ->
              LET r == DbSet(store, res.cmd.key, res.cmd.value, res.cmd.expire_time,
                             now, nset + 1)
              IN
              IF DbSetPanics(res.cmd.expire_time, now)
              THEN /\ pc' = [pc EXCEPT ![c] = "panic"]
                   /\ batch' = [batch EXCEPT ![c] = <<>>]
                   /\ UNCHANGED <<store, nset, lastSet, cur, ack, sock, lastGet>>
              ELSE IF IsSome(r)
              THEN /\ store' = Unwrap(r)
                   /\ nset' = nset + 1
                   /\ lastSet' = Insert(lastSet, res.cmd.key,
                                   [value |-> res.cmd.value, px |-> res.cmd.expire_time,
                                    at |-> now, seq |-> nset + 1])
                   /\ cur' = [cur EXCEPT ![c] =
                                Some([cmd |-> res.cmd, orig |-> message, seq |-> nset + 1])]
                   /\ pc' = [pc EXCEPT ![c] = "publish"]
                   /\ batch' = [batch EXCEPT ![c] = Tail(@)]
                   /\ UNCHANGED <<ack, sock, lastGet>>
              ELSE /\ pc' = [pc EXCEPT ![c] = "error"]
                   /\ batch' = [batch EXCEPT ![c] = <<>>]
                   /\ UNCHANGED <<store, nset, lastSet, cur, ack, sock, lastGet>>
    /\ UNCHANGED <<now, chan, rx, sub, reads, recvd, followerVars>>

\* A SET whose publish fails the command when the channel has no receiver
PublishNeedsReceiver(c) ==
    /\ pc[c] = "publish"
    /\ IF Receivers = {}
       THEN /\ pc' = [pc EXCEPT ![c] = "error"]
            /\ batch' = [batch EXCEPT ![c] = <<>>]
            /\ UNCHANGED <<chan, sock>>
       ELSE /\ chan' = Append(chan,
                         [frame |-> SetEvent(Unwrap(cur[c]).cmd, Unwrap(cur[c]).orig),
                          orig |-> Unwrap(cur[c]).orig,
                          seq |-> Unwrap(cur[c]).seq])
            /\ sock' = [sock EXCEPT ![c] = Append(@, Reply(SimpleString(OK)))]
            /\ pc' = [pc EXCEPT ![c] = "dispatch"]
            /\ batch' = batch
    /\ cur' = [cur EXCEPT ![c] = None]
    /\ UNCHANGED <<now, store, nset, lastSet, ack, rx, sub, lastGet, reads,
                   recvd, followerVars>>

\* MessageHandler::handle (Command::Set), after db.set has returned:
\* distribute_message, whose result is dropped, then the write of the OK reply
Publish(c) ==
    /\ pc[c] = "publish"
    /\ chan' = distribute_message(chan,
                  [frame |-> SetEvent(Unwrap(cur[c]).cmd, Unwrap(cur[c]).orig),
                   orig |-> Unwrap(cur[c]).orig,
                   seq |-> Unwrap(cur[c]).seq],
                  Receivers)
    /\ sock' = [sock EXCEPT ![c] = Append(@, Reply(SimpleString(OK)))]
    /\ cur' = [cur EXCEPT ![c] = None]
    /\ pc' = [pc EXCEPT ![c] = "dispatch"]
    /\ UNCHANGED <<now, store, nset, lastSet, batch, ack, rx, sub, lastGet, reads,
                   recvd, followerVars>>

\* An upgrade that subscribes every connection, not only the one upgraded
EndBatchSubscribeAll(c) ==
    /\ pc[c] = "dispatch"
    /\ batch[c] = <<>>
    /\ IF ack[c]
       THEN /\ pc' = [pc EXCEPT ![c] = "replicating"]
            /\ rx' = [d \in Conns |-> Some(Len(chan))]
            /\ sub' = [d \in Conns |-> Some(Len(chan))]
       ELSE /\ pc' = [pc EXCEPT ![c] = "serving"]
            /\ UNCHANGED <<rx, sub>>
    /\ UNCHANGED <<now, store, nset, lastSet, chan, batch, cur, ack, sock, lastGet,
                   reads, recvd, followerVars>>

\* A connection loop that never looks at the flag
EndBatchKeepServing(c) ==
    /\ pc[c] = "dispatch"
    /\ batch[c] = <<>>
    /\ pc' = [pc EXCEPT ![c] = "serving"]
    /\ UNCHANGED <<now, store, nset, lastSet, chan, batch, cur, ack, rx, sub, sock,
                   lastGet, reads, recvd, followerVars>>

\* handle_connection: the end of a batch.  With the flag set the task becomes
\* handle_replication_client, which subscribes to the channel.
EndBatch(c) ==
    /\ pc[c] = "dispatch"
    /\ batch[c] = <<>>
    /\ IF ack[c]
       THEN /\ pc' = [pc EXCEPT ![c] = "replicating"]
            /\ rx' = [rx EXCEPT ![c] = Some(Len(chan))]
            /\ sub' = [sub EXCEPT ![c] = Some(Len(chan))]
       ELSE /\ pc' = [pc EXCEPT ![c] = "serving"]
            /\ UNCHANGED <<rx, sub>>
    /\ UNCHANGED <<now, store, nset, lastSet, chan, batch, cur, ack, sock, lastGet,
                   reads, recvd, followerVars>>

\* handle_replication_client: rx.recv returns a value, which is written to the
\* socket; a failed write ends the task
Forward(c) ==
    /\ pc[c] = "replicating"
    /\ ~Lagged(Unwrap(rx[c]), Len(chan))
    /\ Unwrap(rx[c]) < Len(chan)
    /\ LET slot == RecvSlot(Unwrap(rx[c]), Len(chan), Unwrap(sub[c])) IN
       \E written \in BOOLEAN :
          IF written
          THEN /\ sock' = [sock EXCEPT ![c] = Append(@, [f |-> chan[slot].frame, ev |-> slot])]
               /\ rx' = [rx EXCEPT ![c] = Some(RecvNext(Unwrap(@)))]
               /\ pc' = pc
          ELSE /\ pc' = [pc EXCEPT ![c] = "io_error"]
               /\ rx' = [rx EXCEPT ![c] = None]
               /\ sock' = sock
    /\ UNCHANGED <<now, store, nset, lastSet, chan, batch, cur, ack, sub, lastGet,
                   reads, recvd, followerVars>>

\* A session that goes on after RecvError::Lagged, from the oldest value retained
LagSkips(c) ==
    /\ pc[c] = "replicating"
    /\ Lagged(Unwrap(rx[c]), Len(chan))
    /\ rx' = [rx EXCEPT ![c] = Some(Len(chan) - Capacity)]
    /\ UNCHANGED <<now, store, nset, lastSet, chan, pc, batch, cur, ack, sub, sock,
                   lastGet, reads, recvd, followerVars>>

\* handle_replication_client: rx.recv returns RecvError::Lagged, which ends the task
Lag(c) ==
    /\ pc[c] = "replicating"
    /\ Lagged(Unwrap(rx[c]), Len(chan))
    /\ pc' = [pc EXCEPT ![c] = "lagged"]
    /\ rx' = [rx EXCEPT ![c] = None]
    /\ UNCHANGED <<now, store, nset, lastSet, chan, batch, cur, ack, sub, sock,
                   lastGet, reads, recvd, followerVars>>

\* Every step of the leader process
Next ==
    \/ Tick
    \/ \E c \in Conns : Accept(c)
    \/ \E c \in Conns : Read(c, ClientFrames, MaxReplFrames)
    \/ \E c \in Conns : ReadEof(c)
    \/ \E c \in Conns : DecodeError(c)
    \/ \E c \in Conns : ReadFails(c)
    \/ \E c \in Conns : Dispatch(c)
    \/ \E c \in Conns : Publish(c)
    \/ \E c \in Conns : EndBatch(c)
    \/ \E c \in Conns : Forward(c)
    \/ \E c \in Conns : Lag(c)

Spec == Init /\ [][Next]_vars

\* The store scenario: two connections that stay open issue SET and GET while
\* time passes
StoreConns == {"c1", "c2"}

StoreNext ==
    \/ Tick
    \/ \E c \in StoreConns : Accept(c)
    \/ \E c \in StoreConns : Read(c, StoreFrames, MaxStoreFrames)
    \/ \E c \in StoreConns : Dispatch(c)
    \/ \E c \in StoreConns : Publish(c)
    \/ \E c \in StoreConns : EndBatch(c)

StoreSpec == Init /\ [][StoreNext]_vars

\* The replication scenario: three connections that stay open issue SET and PSYNC
ReplNext ==
    \/ \E c \in Conns : Accept(c)
    \/ \E c \in Conns : Read(c, ReplFrames, MaxReplFrames)
    \/ \E c \in Conns : Dispatch(c)
    \/ \E c \in Conns : Publish(c)
    \/ \E c \in Conns : EndBatch(c)
    \/ \E c \in Conns : Forward(c)
    \/ \E c \in Conns : Lag(c)

ReplSpec == Init /\ [][ReplNext]_vars

\* The command scenario: one connection upgrades to a replication session
\* while the other issues every command, well formed and not
CmdConns == {"c1", "c2"}

CmdNext ==
    \/ \E c \in CmdConns : Accept(c)
    \/ \E c \in CmdConns :
          Read(c, IF c = "c1" THEN {PsyncFrame} ELSE CmdFrames, MaxCmdFrames)
    \/ \E c \in CmdConns : Dispatch(c)
    \/ \E c \in CmdConns : Publish(c)
    \/ \E c \in CmdConns : EndBatch(c)
    \/ \E c \in CmdConns : Forward(c)

CmdSpec == Init /\ [][CmdNext]_vars

\* The option scenario: two connections issue SETs with and without option
\* words, and GETs, while time passes
OptionNext ==
    \/ Tick
    \/ \E c \in StoreConns : Accept(c)
    \/ \E c \in StoreConns : Read(c, OptionFrames, MaxStoreFrames)
    \/ \E c \in StoreConns : Dispatch(c)
    \/ \E c \in StoreConns : Publish(c)
    \/ \E c \in StoreConns : EndBatch(c)

OptionSpec == Init /\ [][OptionNext]_vars

\* The upgrade scenario: the first connection is a follower that sends PSYNC,
\* and the clients of the other connections send their SETs only after the
\* follower's connection has been sent the FULLRESYNC reply and the snapshot
ReplyWritten(c) == \E i \in 1..Len(sock[c]) : sock[c][i].f = get_rdb_file

WindowNext ==
    \/ \E c \in Conns : Accept(c)
    \/ Read("c1", {PsyncFrame}, MaxReplFrames)
    \/ \E c \in Conns \ {"c1"} :
          ReplyWritten("c1") /\ Read(c, ReplFrames \ {PsyncFrame}, MaxReplFrames)
    \/ \E c \in Conns : Dispatch(c)
    \/ \E c \in Conns : Publish(c)
    \/ \E c \in Conns : EndBatch(c)
    \/ \E c \in Conns : Forward(c)
    \/ \E c \in Conns : Lag(c)

WindowSpec == Init /\ [][WindowNext]_vars

\* The connection scenario: two connections issue commands, some of them
\* malformed, and may be closed or fail
ConnNext ==
    \/ \E c \in StoreConns : Accept(c)
    \/ \E c \in StoreConns : Read(c, ConnFrames, MaxConnFrames)
    \/ \E c \in StoreConns : ReadEof(c)
    \/ \E c \in StoreConns : DecodeError(c)
    \/ \E c \in StoreConns : ReadFails(c)
    \/ \E c \in StoreConns : Dispatch(c)
    \/ \E c \in StoreConns : Publish(c)
    \/ \E c \in StoreConns : EndBatch(c)

ConnSpec == Init /\ [][ConnNext]_vars

(***************************************************************************)
(* The codec scenario: a sequence of frames is encoded with to_data, the   *)
(* bytes are concatenated as write_all puts them on a socket, and one read *)
(* decodes them with parse_data.                                           *)
(***************************************************************************)
CodecFrames ==
    {SimpleString(OK), SimpleString(<<>>),
     BulkString(<<>>), BulkString(<<"a">>), BulkString(<<"a", "\r", "\n">>),
     BulkString(REDIS_MAGIC), BulkString(REDIS_MAGIC \o <<"1">>),
     BulkString(<<"h","e","l","l","o","!">>),
     NullBulkString, Integer(0), Integer(-12),
     Array(<<>>), GetK, Array(<<Integer(7), Array(<<ValA, NullBulkString>>)>>),
     RdbFile(REDIS_MAGIC \o <<"1">>), get_rdb_file}

\* Message::to_data on each frame, written to the socket one after the other
Encode ==
    /\ wire = None
    /\ \E fs \in SeqsUpTo(CodecFrames, MaxCodecFrames) :
          wire' = Some([frames |-> fs, bytes |-> ConcatData(fs)])
    /\ UNCHANGED <<now, store, nset, lastSet, chan, leaderVars, fpc, fin, fout, frecv,
                   fhandled, facks, bytes_acknowledged, fsent, peer, decoded>>

\* parse_data on the bytes of one read
Decode ==
    /\ IsSome(wire)
    /\ decoded = None
    /\ decoded' = Some(parse_data(Unwrap(wire).bytes))
    /\ UNCHANGED <<now, store, nset, lastSet, chan, leaderVars, fpc, fin, fout, frecv,
                   fhandled, facks, bytes_acknowledged, fsent, peer, wire>>

CodecNext == Encode \/ Decode

CodecSpec == Init /\ [][CodecNext]_vars

\* The malformed-read scenario: one read returns bytes that are no sequence
\* of whole frames, after at most MaxGoodFrames well-formed frames
WholeFrames ==
    {SimpleString(OK), BulkString(<<"a", "b">>), Integer(12), NullBulkString,
     Array(<<BulkString(<<"a">>)>>)}

\* A frame cut off: a proper, non-empty prefix of the encoding of a frame
CutOff == UNION {{SubSeq(to_data(f), 1, n) : n \in 1..(Len(to_data(f)) - 1)} : f \in WholeFrames}

\* A frame whose type byte is none of + $ : *
UnknownType == {<<b>> \o Tail(to_data(f)) : b \in {"x", "-"}, f \in WholeFrames}

\* A length or an integer field that holds a non-digit
NonDigit ==
    {<<"$", "a", "\r", "\n", "a", "b", "\r", "\n">>,
     <<"$", "2", "x", "\r", "\n", "a", "b", "\r", "\n">>,
     <<":", "1", "x", "\r", "\n">>,
     <<"*", "x", "\r", "\n", "+", "O", "K", "\r", "\n">>}

\* A bulk length that overruns the bytes that remain
Overrun ==
    {<<"$", "5", "\r", "\n", "a", "b", "\r", "\n">>,
     <<"$", "3", "\r", "\n", "a", "b">>,
     <<"$", "7", "\r", "\n">> \o REDIS_MAGIC \o <<"1">>,
     <<"*", "1", "\r", "\n", "$", "9", "\r", "\n", "a">>}

Malformed ==
    [kind : {"cut_off"}, bytes : CutOff] \cup [kind : {"unknown_type"}, bytes : UnknownType]
    \cup [kind : {"non_digit"}, bytes : NonDigit] \cup [kind : {"overrun"}, bytes : Overrun]

\* read_buf returns well-formed frames followed by malformed bytes
ReadMalformed ==
    /\ wire = None
    /\ \E fs \in SeqsUpTo(WholeFrames, MaxGoodFrames), m \in Malformed :
          wire' = Some([frames |-> fs, kind |-> m.kind,
                        bytes |-> ConcatData(fs) \o m.bytes])
    /\ UNCHANGED <<now, store, nset, lastSet, chan, leaderVars, fpc, fin, fout, frecv,
                   fhandled, facks, bytes_acknowledged, fsent, peer, decoded>>

MalformedNext == ReadMalformed \/ Decode

MalformedSpec == Init /\ [][MalformedNext]_vars

\* The partial-read scenario: one connection whose reads return the bytes of
\* at most MaxGoodFrames well-formed commands followed by nothing, by malformed
\* bytes, or by a command whose last terminator is not CR LF
GoodCmds == {SetPlain, GetK, EchoA}

BadTerminator ==
    {SubSeq(to_data(f), 1, Len(to_data(f)) - 2) \o <<"X", "Y">> : f \in GoodCmds}

BrokenTail ==
    Malformed \cup [kind : {"bad_terminator"}, bytes : BadTerminator]
    \cup {[kind |-> "whole", bytes |-> <<>>]}

\* handle_connection: read_buf returns bytes, parse_data decodes them all, and
\* only then are the frames handled; an error or a panic of the decoder ends
\* the task
ReadBytes(c) ==
    /\ pc[c] = "serving"
    /\ reads < MaxByteReads
    /\ \E fs \in SeqsUpTo(GoodCmds, MaxGoodFrames), m \in BrokenTail :
          LET data == ConcatData(fs) \o m.bytes
              messages == parse_data(data)
          IN
          /\ Len(data) > 0
          /\ wire' = Some([frames |-> fs, kind |-> m.kind, bytes |-> data])
          /\ IF messages.r = "Ok"
             THEN /\ batch' = [batch EXCEPT ![c] = messages.messages]
                  /\ recvd' = [recvd EXCEPT ![c] = @ \o messages.messages]
                  /\ pc' = [pc EXCEPT ![c] = "dispatch"]
             ELSE /\ pc' = [pc EXCEPT ![c] =
                              IF messages.r = "Panic" THEN "panic" ELSE "error"]
                  /\ UNCHANGED <<batch, recvd>>
    /\ reads' = reads + 1
    /\ UNCHANGED <<now, store, nset, lastSet, chan, cur, ack, rx, sub, sock, lastGet,
                   fpc, fin, fout, frecv, fhandled, facks, bytes_acknowledged, fsent,
                   peer, decoded>>

PartialNext ==
    \/ \E c \in {"c1"} : Accept(c)
    \/ \E c \in {"c1"} : ReadBytes(c)
    \/ \E c \in {"c1"} : Dispatch(c)
    \/ \E c \in {"c1"} : Publish(c)
    \/ \E c \in {"c1"} : EndBatch(c)

PartialSpec == Init /\ [][PartialNext]_vars

(***************************************************************************)
(* handler/replication.rs: ReplicationHandler.                             *)
(***************************************************************************)
GETACK == <<"G","E","T","A","C","K">>

ACK == <<"A","C","K">>

IsTextReply(message, text) ==
    message.t \in {"BulkString", "SimpleString"} /\ to_uppercase(message.v) = text

check_any_reply(message) == TRUE

\* A check of the reply to PING that takes a simple string only
check_ping_reply_simple_only(message) ==
    message.t = "SimpleString" /\ to_uppercase(message.v) = PONG

check_ping_reply(message) == IsTextReply(message, PONG)

check_replconf_reply(message) == IsTextReply(message, OK)

check_psync_reply_any_string(message) ==
    message.t \in {"BulkString", "SimpleString"}
    /\ StartsWith(to_uppercase(message.v), FULLRESYNC)

check_psync_reply(message) ==
    message.t = "SimpleString" /\ StartsWith(to_uppercase(message.v), FULLRESYNC)

\* The state a ReplicationHandler works on: its counter, the store and the
\* channel of the follower process, the frames written back to the leader,
\* and what ended the task, if anything (r = "Ok" while it runs).
HandlerState(r) ==
    [r |-> r, bytes |-> bytes_acknowledged, store |-> store, nset |-> nset,
     lastSet |-> lastSet, chan |-> chan, out |-> fout, handled |-> fhandled,
     acks |-> facks]

\* A handler that answers every frame with an ACK and does nothing else
repl_handle_ack_all(h, message, before, t, receivers) ==
    [h EXCEPT !.bytes = @ + Len(to_data(message)),
              !.handled = Append(@, message),
              !.out = Append(@, get_replconf_command(ACK, to_string(h.bytes)))]

\* ReplicationHandler::handle on one frame, and the write of its reply by
\* handle_messages.  before: the frames received on the link ahead of this one.
repl_handle(h, message, before, t, receivers) ==
    LET previously_acknowledged == h.bytes
        counted == [h EXCEPT !.bytes = @ + Len(to_data(message)),
                             !.handled = Append(@, message)]
        parsed == parse_command(message)
    IN
    IF parsed.r # "Ok" THEN [counted EXCEPT !.r = parsed.r]
    ELSE LET command == parsed.cmd IN
         CASE command.c = "Ping" -> counted
           [] command.c = "Set" ->
                LET r == DbSet(h.store, command.key, command.value,
                               command.expire_time, t, h.nset + 1)
                IN
                IF DbSetPanics(command.expire_time, t) THEN [counted EXCEPT !.r = "Panic"]
                ELSE IF IsSome(r)
                THEN [counted EXCEPT
                        !.store = Unwrap(r),
                        !.nset = @ + 1,
                        !.lastSet = Insert(@, command.key,
                                      [value |-> command.value,
                                       px |-> command.expire_time,
                                       at |-> t, seq |-> h.nset + 1]),
                        !.chan = distribute_message(@,
                                    [frame |-> SetEvent(command, message),
                                     orig |-> message, seq |-> h.nset + 1],
                                    receivers)]
                ELSE [counted EXCEPT !.r = "Err"]
           [] command.c = "Replconf" ->
                IF ~IsSome(command.name) \/ to_uppercase(Unwrap(command.name)) # GETACK
                THEN [counted EXCEPT !.r = "Err"]
                ELSE [counted EXCEPT
                        !.out = Append(@, get_replconf_command(ACK,
                                             to_string(previously_acknowledged))),
                        !.acks = Append(@, [ack |-> get_replconf_command(ACK,
                                                      to_string(previously_acknowledged)),
                                            before |-> before])]
           [] command.c \in {"Echo", "Get"} -> [counted EXCEPT !.r = "Err"]
           [] command.c \in {"Info", "Psync"} -> [counted EXCEPT !.r = "Panic"]

RECURSIVE handle_messages(_, _, _, _, _)
\* handle_messages: the frames of one read, in order, until one fails
handle_messages(h, repl_messages, before, t, receivers) ==
    IF Len(repl_messages) = 0 \/ h.r # "Ok" THEN h
    ELSE handle_messages(repl_handle(h, Head(repl_messages), before, t, receivers),
                         Tail(repl_messages),
                         Append(before, Head(repl_messages)), t, receivers)

(***************************************************************************)
(* replication_client.rs: start_replication, against a leader that answers *)
(* each handshake step with an accepted or a refused reply, sends the      *)
(* snapshot after its answer to PSYNC, and then streams replicated frames. *)
(* fpc: "start", "ping", "port", "capa", "psync" (the step whose reply is  *)
(* awaited), "rdb" (the snapshot is read separately), "apply", and the     *)
(* ends of the task: "failed" (an error returned), "panicked".             *)
(***************************************************************************)
ListenerPort == 6379

ERR == <<"E","R","R">>

Handshake ==
    <<get_ping_command,
      get_replconf_command(<<"l","i","s","t","e","n","i","n","g","-","p","o","r","t">>,
                           to_string(ListenerPort)),
      get_replconf_command(<<"c","a","p","a">>, <<"p","s","y","n","c","2">>),
      get_psync_command(<<"?">>, -1)>>

GetAckFrame == get_replconf_command(GETACK, <<"*">>)

\* What the leader may answer to handshake step n
LeaderReplies(n) ==
    CASE n = 1 -> {BulkString(PONG), SimpleString(<<"p","o","n","g">>), SimpleString(ERR)}
      [] n \in {2, 3} -> {SimpleString(OK), SimpleString(ERR)}
      [] n = 4 -> {FullResyncReply, BulkString(FullResyncReply.v)}

StreamFrames == {SetPlain, get_ping_command, GetAckFrame}

RECURSIVE Flatten(_)
Flatten(ss) == IF Len(ss) = 0 THEN <<>> ELSE Head(ss) \o Flatten(Tail(ss))

\* The replicated frames among the frames received: those after the snapshot
RECURSIVE AfterSnapshot(_)
AfterSnapshot(fs) ==
    IF Len(fs) = 0 THEN <<>>
    ELSE IF Head(fs).t = "RdbFile" THEN Tail(fs) ELSE AfterSnapshot(Tail(fs))

InitFollower ==
    /\ InitLeader
    /\ fpc = "start"
    /\ fin = <<>>
    /\ fout = <<>>
    /\ frecv = <<>>
    /\ fhandled = <<>>
    /\ facks = <<>>
    /\ bytes_acknowledged = 0
    /\ fsent = 0

processVars == <<now, store, nset, lastSet, chan, leaderVars, peer, codecVars>>

\* The leader answers the handshake step it has received
LeaderReply ==
    /\ fsent < Len(Handshake)
    /\ Len(fout) > fsent
    /\ \E reply \in LeaderReplies(fsent + 1) : fin' = Append(fin, reply)
    /\ fsent' = fsent + 1
    /\ UNCHANGED <<processVars, fpc, fout, frecv, fhandled, facks, bytes_acknowledged>>

\* The leader sends the snapshot after its answer to PSYNC
LeaderSnapshot ==
    /\ fsent = Len(Handshake)
    /\ fin' = Append(fin, get_rdb_file)
    /\ fsent' = fsent + 1
    /\ UNCHANGED <<processVars, fpc, fout, frecv, fhandled, facks, bytes_acknowledged>>

\* The leader streams a replicated frame drawn from F
LeaderStreams(F) ==
    /\ fsent > Len(Handshake)
    /\ fsent < Len(Handshake) + 1 + MaxStream
    /\ \E f \in F : fin' = Append(fin, f)
    /\ fsent' = fsent + 1
    /\ UNCHANGED <<processVars, fpc, fout, frecv, fhandled, facks, bytes_acknowledged>>

LeaderStream == LeaderStreams(StreamFrames)

\* start_replication: connect and send PING
Connect ==
    /\ fpc = "start"
    /\ fout' = <<Handshake[1]>>
    /\ fpc' = "ping"
    /\ UNCHANGED <<processVars, fin, frecv, fhandled, facks, bytes_acknowledged, fsent>>

StepOf(p) == CASE p = "ping" -> 1 [] p = "port" -> 2 [] p = "capa" -> 3

NextPc(p) == CASE p = "ping" -> "port" [] p = "port" -> "capa" [] p = "capa" -> "psync"

CheckReply(p, reply) ==
    IF p = "ping" THEN check_ping_reply(reply) ELSE check_replconf_reply(reply)

\* start_replication: get_reply and the check of the reply to PING or to a
\* REPLCONF, then the send of the next step.  A read returns what the leader
\* has written so far, or a part of it made of whole frames.
HandshakeStep ==
    /\ fpc \in {"ping", "port", "capa"}
    /\ \E n \in 1..Len(fin) :
          LET res == SubSeq(fin, 1, n) IN
          /\ fin' = SubSeq(fin, n + 1, Len(fin))
          /\ frecv' = Append(frecv, res)
          /\ IF Len(res) = 1 /\ CheckReply(fpc, res[1])
             THEN /\ fout' = Append(fout, Handshake[StepOf(fpc) + 1])
                  /\ fpc' = NextPc(fpc)
             ELSE /\ fpc' = "failed"
                  /\ fout' = fout
    /\ UNCHANGED <<processVars, fhandled, facks, bytes_acknowledged, fsent>>

\* The follower process takes over the state a handler run ends in
Adopt(h, p) ==
    /\ bytes_acknowledged' = h.bytes
    /\ store' = h.store
    /\ nset' = h.nset
    /\ lastSet' = h.lastSet
    /\ chan' = h.chan
    /\ fout' = h.out
    /\ fhandled' = h.handled
    /\ facks' = h.acks
    /\ fpc' = IF h.r = "Ok" THEN p ELSE IF h.r = "Panic" THEN "panicked" ELSE "failed"

\* start_replication: the read after PSYNC, check_psync_reply on its first
\* frame, and the frames from the third on passed to handle_messages
PsyncStep ==
    /\ fpc = "psync"
    /\ \E n \in 1..Len(fin) :
          LET replies == SubSeq(fin, 1, n) IN
          /\ fin' = SubSeq(fin, n + 1, Len(fin))
          /\ frecv' = Append(frecv, replies)
          /\ IF ~check_psync_reply(replies[1])
             THEN /\ fpc' = "failed"
                  /\ UNCHANGED <<store, nset, lastSet, chan, fout, fhandled, facks,
                                 bytes_acknowledged>>
             ELSE IF Len(replies) = 1
             THEN /\ fpc' = "rdb"
                  /\ UNCHANGED <<store, nset, lastSet, chan, fout, fhandled, facks,
                                 bytes_acknowledged>>
             ELSE Adopt(handle_messages(HandlerState("Ok"),
                                        SubSeq(replies, 3, Len(replies)),
                                        AfterSnapshot(Flatten(frecv)
                                                      \o SubSeq(replies, 1, 2)),
                                        now, Receivers),
                        "apply")
    /\ UNCHANGED <<now, leaderVars, fsent, peer, codecVars>>

\* start_replication: the separate read of the snapshot, whose frames are dropped
RdbStep ==
    /\ fpc = "rdb"
    /\ \E n \in 1..Len(fin) :
          /\ fin' = SubSeq(fin, n + 1, Len(fin))
          /\ frecv' = Append(frecv, SubSeq(fin, 1, n))
    /\ fpc' = "apply"
    /\ UNCHANGED <<processVars, fout, fhandled, facks, bytes_acknowledged, fsent>>

\* start_replication: one turn of the apply loop
ApplyStep ==
    /\ fpc = "apply"
    /\ \E n \in 1..Len(fin) :
          LET repl_messages == SubSeq(fin, 1, n) IN
          /\ fin' = SubSeq(fin, n + 1, Len(fin))
          /\ frecv' = Append(frecv, repl_messages)
          /\ Adopt(handle_messages(HandlerState("Ok"), repl_messages,
                                   AfterSnapshot(Flatten(frecv)), now, Receivers),
                   "apply")
    /\ UNCHANGED <<now, leaderVars, fsent, peer, codecVars>>

\* A read or a write of the link fails, the leader closes the connection, or
\* the bytes read do not decode: the error ends start_replication
LinkError ==
    /\ fpc \in {"start", "ping", "port", "capa", "psync", "rdb", "apply"}
    /\ fpc' = "failed"
    /\ UNCHANGED <<processVars, fin, fout, frecv, fhandled, facks, bytes_acknowledged,
                   fsent>>

FollowerNext ==
    \/ LeaderReply
    \/ LeaderSnapshot
    \/ LeaderStream
    \/ Connect
    \/ HandshakeStep
    \/ PsyncStep
    \/ RdbStep
    \/ ApplyStep
    \/ LinkError

FollowerSpec == InitFollower /\ [][FollowerNext]_vars

\* The chained scenario: a follower whose leader may send any command on the
\* replication stream, and which serves one connection that may itself
\* upgrade to a replication session of the follower
WaitFrame ==
    Array(<<BulkString(<<"W","A","I","T">>), BulkString(<<"0">>), BulkString(<<"0">>)>>)

ApplyFrames ==
    {SetPlain, SetPx1, get_ping_command, GetAckFrame, EchoA, GetK, InfoFrame,
     PsyncFrame, ReplconfCapa, WaitFrame}

ChainConns == {"c1"}

ChainNext ==
    \/ LeaderReply
    \/ LeaderSnapshot
    \/ LeaderStreams(ApplyFrames)
    \/ Connect
    \/ HandshakeStep
    \/ PsyncStep
    \/ RdbStep
    \/ ApplyStep
    \/ LinkError
    \/ \E c \in ChainConns : Accept(c)
    \/ \E c \in ChainConns : Read(c, {PsyncFrame}, 1)
    \/ \E c \in ChainConns : Dispatch(c)
    \/ \E c \in ChainConns : EndBatch(c)
    \/ \E c \in ChainConns : Forward(c)

ChainSpec == InitFollower /\ [][ChainNext]_vars

\* The process scenario: a process started without or with replicaof serves
\* one client connection while its replication client, if any, runs
ProcConns == {"c1"}

ProcInit == Init \/ InitFollower

ProcNext ==
    \/ FollowerNext
    \/ \E c \in ProcConns : Accept(c)
    \/ \E c \in ProcConns : Read(c, ProcFrames, MaxProcFrames)
    \/ \E c \in ProcConns : Dispatch(c)
    \/ \E c \in ProcConns : Publish(c)
    \/ \E c \in ProcConns : EndBatch(c)

ProcSpec == ProcInit /\ [][ProcNext]_vars

(***************************************************************************)
(* The pair scenario: a leader process and a follower process of this      *)
(* program joined by one connection, c1 on the leader's side.  The process *)
(* variables are the leader's; the store, the counters and the channel of  *)
(* the follower process are in peer.  A client of the leader, c2, sends    *)
(* SETs once c1 is Replicating.  No read or write fails, no frame is cut   *)
(* by a read, and the clock stands still.                                  *)
(***************************************************************************)
PairConns == {"c1", "c2"}

PairFrames == {SetPlain, SetPx1}

\* handle_connection on c1: read_buf returns frames the follower has written
LinkRead(c) ==
    /\ pc[c] = "serving"
    /\ Len(recvd[c]) < Len(fout)
    /\ \E n \in 1..(Len(fout) - Len(recvd[c])) :
          LET b == SubSeq(fout, Len(recvd[c]) + 1, Len(recvd[c]) + n) IN
          /\ batch' = [batch EXCEPT ![c] = b]
          /\ recvd' = [recvd EXCEPT ![c] = @ \o b]
    /\ pc' = [pc EXCEPT ![c] = "dispatch"]
    /\ UNCHANGED <<now, store, nset, lastSet, chan, cur, ack, rx, sub, sock,
                   lastGet, reads, followerVars>>

\* The connection carries the next frame the leader has written on c1
Deliver ==
    /\ fsent < Len(sock["c1"])
    /\ fin' = Append(fin, sock["c1"][fsent + 1].f)
    /\ fsent' = fsent + 1
    /\ UNCHANGED <<now, store, nset, lastSet, chan, leaderVars, codecVars, peer, fpc,
                   fout, frecv, fhandled, facks, bytes_acknowledged>>

\* handle_replication_client: rx.recv and a write that succeeds
ForwardWritten(c) == Forward(c) /\ pc'[c] = "replicating"

\* The state the follower's ReplicationHandler works on
PeerState(r) ==
    [r |-> r, bytes |-> bytes_acknowledged, store |-> peer.store, nset |-> peer.nset,
     lastSet |-> peer.lastSet, chan |-> peer.chan, out |-> fout, handled |-> fhandled,
     acks |-> facks]

\* The follower process takes over the state a handler run ends in
PeerAdopt(h, p) ==
    /\ bytes_acknowledged' = h.bytes
    /\ peer' = [store |-> h.store, nset |-> h.nset, lastSet |-> h.lastSet,
                chan |-> h.chan]
    /\ fout' = h.out
    /\ fhandled' = h.handled
    /\ facks' = h.acks
    /\ fpc' = IF h.r = "Ok" THEN p ELSE IF h.r = "Panic" THEN "panicked" ELSE "failed"

\* start_replication in the follower process: the read after PSYNC
PairPsyncStep ==
    /\ fpc = "psync"
    /\ \E n \in 1..Len(fin) :
          LET replies == SubSeq(fin, 1, n) IN
          /\ fin' = SubSeq(fin, n + 1, Len(fin))
          /\ frecv' = Append(frecv, replies)
          /\ IF ~check_psync_reply(replies[1])
             THEN /\ fpc' = "failed"
                  /\ UNCHANGED <<peer, fout, fhandled, facks, bytes_acknowledged>>
             ELSE IF Len(replies) = 1
             THEN /\ fpc' = "rdb"
                  /\ UNCHANGED <<peer, fout, fhandled, facks, bytes_acknowledged>>
             ELSE PeerAdopt(handle_messages(PeerState("Ok"),
                                            SubSeq(replies, 3, Len(replies)),
                                            AfterSnapshot(Flatten(frecv)
                                                          \o SubSeq(replies, 1, 2)),
                                            now, {}),
                            "apply")
    /\ UNCHANGED <<now, store, nset, lastSet, chan, leaderVars, fsent, codecVars>>

\* start_replication in the follower process: one turn of the apply loop
PairApplyStep ==
    /\ fpc = "apply"
    /\ \E n \in 1..Len(fin) :
          LET repl_messages == SubSeq(fin, 1, n) IN
          /\ fin' = SubSeq(fin, n + 1, Len(fin))
          /\ frecv' = Append(frecv, repl_messages)
          /\ PeerAdopt(handle_messages(PeerState("Ok"), repl_messages,
                                       AfterSnapshot(Flatten(frecv)), now, {}),
                       "apply")
    /\ UNCHANGED <<now, store, nset, lastSet, chan, leaderVars, fsent, codecVars>>

\* The steps of the leader's tasks, of the connection and of the follower
LeaderTaskStep(c) ==
    Dispatch(c) \/ Publish(c) \/ EndBatch(c) \/ ForwardWritten(c)

FollowerStep ==
    Connect \/ HandshakeStep \/ PairPsyncStep \/ RdbStep \/ PairApplyStep

PairNext ==
    \/ Connect
    \/ \E c \in PairConns : (c = "c1" => fpc # "start") /\ Accept(c)
    \/ LinkRead("c1")
    \/ pc["c1"] = "replicating" /\ Read("c2", PairFrames, MaxPairFrames)
    \/ \E c \in PairConns : Dispatch(c)
    \/ \E c \in PairConns : Publish(c)
    \/ \E c \in PairConns : EndBatch(c)
    \/ \E c \in PairConns : ForwardWritten(c)
    \/ Deliver
    \/ HandshakeStep
    \/ PairPsyncStep
    \/ RdbStep
    \/ PairApplyStep

PairSpec == InitFollower /\ [][PairNext]_vars

\* Every task that can run does run, the listener accepts, and the
\* connection delivers what was written to it
PairFair ==
    /\ WF_vars(\E c \in PairConns : (c = "c1" => fpc # "start") /\ Accept(c))
    /\ WF_vars(LinkRead("c1"))
    /\ \A c \in PairConns : WF_vars(LeaderTaskStep(c))
    /\ WF_vars(Deliver)
    /\ WF_vars(FollowerStep)

PairLive == PairSpec /\ PairFair

(***************************************************************************)
(* Properties of the store (checked under StoreSpec).                      *)
(***************************************************************************)
Gets == {Unwrap(lastGet[c]) : c \in {d \in Conns : IsSome(lastGet[d])}}

\* The GETs whose key was last written by a SET with PX
GetsAfterPx == {g \in Gets : IsSome(g.seen) /\ IsSome(Unwrap(g.seen).px)}

SeenValue(g) == Unwrap(g.seen).value

SeenExpiry(g) == Unwrap(g.seen).at + Unwrap(Unwrap(g.seen).px)

C2_ExpiryBoundary ==
    \A g \in GetsAfterPx :
        Unwrap(Unwrap(g.seen).px) > 0 =>
            /\ g.at <= SeenExpiry(g) => g.reply = SeenValue(g)
            /\ g.at > SeenExpiry(g) => g.reply = NullBulkString

C2_Witness ==
    \E g \in GetsAfterPx :
        /\ Unwrap(Unwrap(g.seen).px) > 0
        /\ g.at = SeenExpiry(g)
        /\ g.reply = SeenValue(g)
        /\ g.reply # NullBulkString

\* C3 as claimed: for t <= 0 (zero included) the GET that follows SET k v PX t
\* returns NullBulkString whatever the time elapsed, none included.
C3_NonPositiveAlwaysNull ==
    \A g \in GetsAfterPx :
        Unwrap(Unwrap(g.seen).px) <= 0 => g.reply = NullBulkString

\* C3 as amended: for t < 0 the GET that follows SET k v PX t returns
\* NullBulkString whatever the time elapsed; for t = 0 it returns
\* NullBulkString exactly when the clock has advanced past the time of the
\* SET, and v when it is evaluated at the same clock reading.
C3_NonPositiveExpiry ==
    \A g \in GetsAfterPx :
        Unwrap(Unwrap(g.seen).px) <= 0 =>
            /\ Unwrap(Unwrap(g.seen).px) < 0 => g.reply = NullBulkString
            /\ g.reply = NullBulkString <=> g.at > SeenExpiry(g)
            /\ g.at <= SeenExpiry(g) => g.reply = SeenValue(g)

C3_Witness ==
    \E g \in GetsAfterPx :
        /\ Unwrap(Unwrap(g.seen).px) = 0
        /\ g.at = Unwrap(g.seen).at
        /\ g.reply = SeenValue(g)
        /\ g.reply # NullBulkString

(***************************************************************************)
(* Properties of the replication fan-out (checked under ReplSpec).         *)
(***************************************************************************)
Sessions == {c \in Conns : IsSome(sub[c])}

RECURSIVE Forwarded(_)
\* The channel positions of the events written to a socket, in order
Forwarded(sk) ==
    IF Len(sk) = 0 THEN <<>>
    ELSE IF Head(sk).ev > 0 THEN <<Head(sk).ev>> \o Forwarded(Tail(sk))
         ELSE Forwarded(Tail(sk))

Delivered(c) == Forwarded(sock[c])

Count(c, i) == Cardinality({n \in 1..Len(Delivered(c)) : Delivered(c)[n] = i})

\* C4 as claimed: every event published since a session subscribed is written
\* to its socket exactly once: a running session has written it once, or has
\* not reached it yet and can still receive it.
C4_ExactlyOnce ==
    \A c \in Sessions :
        pc[c] = "replicating" =>
            \A i \in (Unwrap(sub[c]) + 1)..Len(chan) :
                \/ Count(c, i) = 1
                \/ /\ Count(c, i) = 0
                   /\ i > Unwrap(rx[c])
                   /\ i > Len(chan) - Capacity

\* C4 as amended: the events a session writes to its socket are the events
\* published since it subscribed, each at most once, in publish order and
\* without a gap, and a running session has written every event it has
\* consumed; a session that falls more than the backlog behind, or whose
\* write fails, ends with the later events undelivered.
C4_AtMostOnceInOrder ==
    \A c \in Sessions :
        /\ Delivered(c) = [n \in 1..Len(Delivered(c)) |-> Unwrap(sub[c]) + n]
        /\ \A i \in 1..Len(chan) : Count(c, i) <= 1
        /\ pc[c] = "replicating" => Len(Delivered(c)) = Unwrap(rx[c]) - Unwrap(sub[c])
        /\ pc[c] = "lagged" => Len(Delivered(c)) < Len(chan) - Unwrap(sub[c])

C4_Witness ==
    \E c \in Sessions :
        /\ pc[c] = "replicating"
        /\ Len(chan) = Unwrap(sub[c]) + 2
        /\ Delivered(c) = <<Unwrap(sub[c]) + 1, Unwrap(sub[c]) + 2>>

\* C5: the frame a SET puts on the broadcast channel is the Array frame that
\* was received, verbatim.
C5_EventIsVerbatim == \A i \in 1..Len(chan) : chan[i].frame = chan[i].orig

EventKey(e) == parse_command(e.orig).cmd.key

\* C6: whenever the event of a SET is on the channel, the store holds the
\* entry written by that SET or by a later SET on the same key.
C6_StoreBeforePublish ==
    \A i \in 1..Len(chan) :
        /\ EventKey(chan[i]) \in DOMAIN store
        /\ store[EventKey(chan[i])].seq >= chan[i].seq

C6_Witness ==
    \E c \in Sessions : \E i \in 1..Len(chan) :
        /\ pc[c] = "replicating"
        /\ Unwrap(rx[c]) < i
        /\ store[EventKey(chan[i])].seq = chan[i].seq
        /\ \E d \in Conns : pc[d] = "publish"

\* C7: any two events that two sessions both write are written in the same
\* relative order by both.
C7_SameOrder ==
    \A c1 \in Sessions, c2 \in Sessions :
        \A i \in 1..Len(Delivered(c1)), j \in 1..Len(Delivered(c1)) :
            \A i2 \in 1..Len(Delivered(c2)), j2 \in 1..Len(Delivered(c2)) :
                (/\ i < j
                 /\ Delivered(c1)[i] = Delivered(c2)[i2]
                 /\ Delivered(c1)[j] = Delivered(c2)[j2]) => i2 < j2

C7_Witness ==
    \E c1 \in Sessions, c2 \in Sessions :
        /\ c1 # c2
        /\ Len(Delivered(c1)) = 2
        /\ Delivered(c2) = Delivered(c1)

(***************************************************************************)
(* Properties of the follower client (checked under FollowerSpec).         *)
(***************************************************************************)
RECURSIVE SerializedLength(_)
\* The sum of the serialized byte lengths of a sequence of frames
SerializedLength(fs) ==
    IF Len(fs) = 0 THEN 0 ELSE Len(to_data(Head(fs))) + SerializedLength(Tail(fs))

\* The number carried by a REPLCONF ACK frame
AckNumber(frame) == parse_i64(frame.v[3].v)

\* C8: the number carried by each REPLCONF ACK the follower sends equals the
\* sum of the serialized byte lengths of all replicated frames it received
\* from the leader before the GETACK that is answered, that GETACK excluded,
\* and is 0 when no frame preceded it.
C8_AckCountsReceived ==
    \A i \in 1..Len(facks) :
        AckNumber(facks[i].ack) = Some(SerializedLength(facks[i].before))

\* The four handshake steps as they appear on the wire
ExpectedHandshake ==
    <<Array(<<BulkString(<<"P","I","N","G">>)>>),
      Array(<<BulkString(<<"R","E","P","L","C","O","N","F">>),
              BulkString(<<"l","i","s","t","e","n","i","n","g","-","p","o","r","t">>),
              BulkString(<<"6","3","7","9">>)>>),
      Array(<<BulkString(<<"R","E","P","L","C","O","N","F">>),
              BulkString(<<"c","a","p","a">>),
              BulkString(<<"p","s","y","n","c","2">>)>>),
      Array(<<BulkString(<<"P","S","Y","N","C">>), BulkString(<<"?">>),
              BulkString(<<"-","1">>)>>)>>

\* The read that answers handshake step n holds a reply the step accepts:
\* PONG, OK, OK, and a SimpleString that begins with FULLRESYNC
ValidReply(n, read) ==
    CASE n = 1 ->
           /\ Len(read) = 1
           /\ read[1].t \in {"SimpleString", "BulkString"}
           /\ to_uppercase(read[1].v) = <<"P","O","N","G">>
      [] n \in {2, 3} ->
           /\ Len(read) = 1
           /\ read[1].t \in {"SimpleString", "BulkString"}
           /\ to_uppercase(read[1].v) = <<"O","K">>
      [] n = 4 ->
           /\ read[1].t = "SimpleString"
           /\ StartsWith(to_uppercase(read[1].v),
                         <<"F","U","L","L","R","E","S","Y","N","C">>)

StepsSent == Min(Len(fout), Len(ExpectedHandshake))

\* C9: the frames the follower writes begin with PING, REPLCONF listening-port,
\* REPLCONF capa psync2, PSYNC ? -1 in this order, nothing written later is a
\* handshake step, each step after the first is written only once the reply to
\* the step before it has been read and accepted, and no replicated frame is
\* applied before the reply to PSYNC has been read and accepted.
C9_HandshakeOrder ==
    /\ SubSeq(fout, 1, StepsSent) = SubSeq(ExpectedHandshake, 1, StepsSent)
    /\ \A i \in 1..Len(fout) :
           i > Len(ExpectedHandshake) => fout[i] \notin Range(ExpectedHandshake)
    /\ \A i \in 2..StepsSent :
           Len(frecv) >= i - 1 /\ ValidReply(i - 1, frecv[i - 1])
    /\ (fhandled # <<>> \/ Len(fout) > Len(ExpectedHandshake)) =>
           /\ StepsSent = Len(ExpectedHandshake)
           /\ Len(frecv) >= Len(ExpectedHandshake)
           /\ \A i \in 1..Len(ExpectedHandshake) : ValidReply(i, frecv[i])

\* The whole handshake was done and replicated frames were applied and answered
C9_Witness ==
    /\ Len(fout) > Len(ExpectedHandshake)
    /\ Len(fhandled) >= 2
    /\ fpc = "apply"

\* Once start_replication has ended, the follower writes nothing, reads
\* nothing, applies nothing and does not start again
StaysAborted ==
    fpc = "failed" =>
        /\ fpc' = "failed"
        /\ fout' = fout
        /\ frecv' = frecv
        /\ fhandled' = fhandled
        /\ store' = store
        /\ bytes_acknowledged' = bytes_acknowledged

\* C10: when the reply to a handshake step is refused (not PONG, not OK, not a
\* SimpleString that begins with FULLRESYNC) the follower client has ended
\* with the steps up to that one sent and no frame applied; and once it has
\* ended, on a refused reply or on an I/O or decode error, it sends no further
\* frame, applies no frame and never starts again.
C10_AbortsOnError ==
    /\ [](\A i \in 1..Min(Len(frecv), Len(ExpectedHandshake)) :
             ~ValidReply(i, frecv[i]) =>
                 /\ fpc = "failed"
                 /\ Len(fout) = i
                 /\ fhandled = <<>>)
    /\ [][StaysAborted]_vars

\* The reply to PSYNC was refused, and the snapshot and a replicated frame
\* that the leader sent after it stay unread
C10_Witness ==
    /\ fpc = "failed"
    /\ Len(frecv) = Len(ExpectedHandshake)
    /\ ~ValidReply(4, frecv[4])
    /\ Len(fin) >= 2
    /\ fhandled = <<>>

\* C11: whichever way the snapshot arrives (in the read that holds FULLRESYNC,
\* alone in the next read, or in one read with replicated frames behind it),
\* once the follower is in its apply loop the frames it has applied are
\* exactly the frames received after the snapshot, each once and in order,
\* the snapshot is not among them, and bytes_acknowledged is the sum of
\* their serialized lengths.
C11_SnapshotPatterns ==
    fpc = "apply" =>
        /\ fhandled = AfterSnapshot(Flatten(frecv))
        /\ \A i \in 1..Len(fhandled) : fhandled[i].t # "RdbFile"
        /\ bytes_acknowledged = SerializedLength(AfterSnapshot(Flatten(frecv)))

(***************************************************************************)
(* Properties of a leader connection (checked under ReplSpec).             *)
(***************************************************************************)
\* C12 as claimed: once a connection has dispatched a PSYNC, no frame of that
\* connection is dispatched any more, the frames decoded from the same read
\* included.
C12_LeavesServingAtPsync ==
    [][\A c \in Conns : ack[c] => batch'[c] = batch[c]]_vars

\* C12 as amended: once a connection has dispatched a PSYNC its socket is
\* never read again: the connection does not return to Serving and the frames
\* it still has to dispatch are only those left of the read that held the
\* PSYNC, which are dispatched before the flag is looked at.
C12_NoReadAfterPsync ==
    /\ [](\A c \in Conns : ack[c] => pc[c] # "serving")
    /\ [][\A c \in Conns : ack[c] => Len(batch'[c]) <= Len(batch[c])]_vars

\* A SET that followed the PSYNC in the same read was dispatched and answered
\* before the connection became a replication session
C12_Witness ==
    \E c \in Conns :
        /\ pc[c] = "replicating"
        /\ Len(sock[c]) >= 3
        /\ sock[c][1].f = FullResyncReply
        /\ sock[c][2].f = get_rdb_file
        /\ sock[c][3] = Reply(SimpleString(OK))

\* The reply to PSYNC as it appears on the wire: the SimpleString
\* FULLRESYNC <replid> 0, then a Snapshot of 88 bytes that begins with REDIS0011
ExpectedFullResync ==
    SimpleString(
        <<"F","U","L","L","R","E","S","Y","N","C"," ","8","3","7","1","b",
          "4","f","b","1","1","5","5","b","7","1","f","4","a","0","4","d",
          "3","e","1","b","c","3","e","1","8","c","4","a","9","9","0","a",
          "e","e","b"," ","0">>)

IsFullResync(e) == e.ev = 0 /\ e.f = ExpectedFullResync

IsSnapshot(e) ==
    /\ e.ev = 0
    /\ e.f.t = "RdbFile"
    /\ Len(e.f.v) = 88
    /\ SubSeq(e.f.v, 1, 9) = <<"R","E","D","I","S","0","0","1","1">>

\* C13: the reply to PSYNC is exactly two frames, the SimpleString
\* FULLRESYNC <replid> 0 followed by the fixed Snapshot; on a socket each
\* FULLRESYNC is directly followed by the Snapshot and each Snapshot directly
\* preceded by a FULLRESYNC, and every WriteEvent forwarded on a socket comes
\* after both.
C13_PsyncReplyBeforeEvents ==
    /\ handle(store, now, Role, PsyncFrame).replies = <<ExpectedFullResync, get_rdb_file>>
    /\ \A c \in Conns :
         /\ ack[c] => \E j \in 1..Len(sock[c]) : IsFullResync(sock[c][j])
         /\ \A j \in 1..Len(sock[c]) :
              /\ IsFullResync(sock[c][j]) =>
                    j < Len(sock[c]) /\ IsSnapshot(sock[c][j + 1])
              /\ sock[c][j].ev = 0 /\ sock[c][j].f.t = "RdbFile" =>
                    IsSnapshot(sock[c][j]) /\ j > 1 /\ IsFullResync(sock[c][j - 1])
              /\ sock[c][j].ev > 0 =>
                    \E i \in 1..(j - 2) :
                        IsFullResync(sock[c][i]) /\ IsSnapshot(sock[c][i + 1])

\* A session has written FULLRESYNC, the Snapshot and then a WriteEvent
C13_Witness ==
    \E c \in Conns :
        /\ Len(sock[c]) >= 3
        /\ IsFullResync(sock[c][1])
        /\ IsSnapshot(sock[c][2])
        /\ sock[c][3].ev > 0

(***************************************************************************)
(* Properties of the connection tasks (checked under ConnSpec).            *)
(***************************************************************************)
\* The connection task has ended in a codec, parse, storage or I/O error
Failed(c) == pc[c] \in {"error", "panic", "io_error"}

\* The listener can accept the connection, or its task can take its next
\* step (a read of frames of F while fewer than max frames were read)
CanProceedWith(d, F, max) ==
    CASE pc[d] = "idle" ->
           (\A e \in Conns : Before(e, d) => pc[e] # "idle") => ENABLED Accept(d)
      [] pc[d] = "serving" ->
           /\ ENABLED ReadEof(d)
           /\ reads < max => ENABLED Read(d, F, max)
      [] pc[d] = "dispatch" ->
           IF batch[d] = <<>> THEN ENABLED EndBatch(d) ELSE ENABLED Dispatch(d)
      [] pc[d] = "publish" -> ENABLED Publish(d)
      [] OTHER -> TRUE

CanProceed(d) == CanProceedWith(d, ConnFrames, MaxConnFrames)

\* The step in which a connection fails changes nothing but that connection
FailureIsLocal ==
    \A c \in Conns :
        (~Failed(c) /\ Failed(c)') =>
            /\ store' = store
            /\ chan' = chan
            /\ \A d \in Conns \ {c} :
                  /\ pc'[d] = pc[d]
                  /\ batch'[d] = batch[d]
                  /\ sock'[d] = sock[d]

\* No step removes or replaces an entry of the store but a SET on its key
EntriesKept ==
    \A k \in DOMAIN store :
        /\ k \in DOMAIN store'
        /\ store'[k] # store[k] => store'[k].seq > store[k].seq

\* C14: an error in one connection task ends that connection only: the step
\* in which it fails changes neither the store nor any other connection, and
\* afterwards the listener still accepts the next connection, every other
\* connection can take its next step, and the store keeps its entries.
C14_ErrorEndsOneConnection ==
    /\ [](\A c \in StoreConns : Failed(c) =>
             \A d \in StoreConns \ {c} : CanProceed(d))
    /\ [][FailureIsLocal]_vars
    /\ [][EntriesKept]_vars

\* The first connection has failed after its SET; the second one has been
\* served a GET that returned the value written by the first
C14_Witness ==
    /\ Failed("c1")
    /\ KeyK \in DOMAIN store
    /\ pc["c2"] = "serving"
    /\ Len(sock["c2"]) >= 1
    /\ sock["c2"][Len(sock["c2"])].f = ValA

(***************************************************************************)
(* Properties of the process (checked under ProcSpec).                     *)
(***************************************************************************)
\* The step in which the replication client ends changes no client connection
ClientFailureIsLocal ==
    (fpc # "failed" /\ fpc' = "failed") =>
        /\ UNCHANGED leaderVars
        /\ store' = store

\* C15: when the replication client of a follower has ended in an error
\* (refused handshake reply, decode error, protocol error, I/O error), the
\* listener of the process still accepts client connections and every client
\* connection can take its next step; the step in which it ends changes no
\* client connection.
C15_ListenerSurvivesFollower ==
    /\ [](fpc = "failed" =>
             \A c \in ProcConns : CanProceedWith(c, ProcFrames, MaxProcFrames))
    /\ [][ClientFailureIsLocal]_vars

\* The replication client has ended during the handshake and a client is
\* being served by the process
C15_Witness ==
    /\ fpc = "failed"
    /\ Len(fout) = 1
    /\ pc["c1"] = "serving"
    /\ Len(sock["c1"]) = 2

(***************************************************************************)
(* Properties of the replies of a connection (checked under ConnSpec).     *)
(***************************************************************************)
\* The connection task has ended in a codec or parse error
ErrorEnded(c) == pc[c] \in {"error", "panic"}

\* The frames that are not a well-formed command
Offending(f) == f \in {UnknownFrame, EchoNoArg}

\* The position of the first offending frame, or one past the end
FirstOffending(fs) ==
    IF \E i \in 1..Len(fs) : Offending(fs[i])
    THEN CHOOSE i \in 1..Len(fs) :
            Offending(fs[i]) /\ \A j \in 1..(i - 1) : ~Offending(fs[j])
    ELSE Len(fs) + 1

\* The command word of a well-formed command frame
CommandWord(f) == to_uppercase(f.v[1].v)

\* rs is what the command frame f is answered with
Answers(f, rs) ==
    CASE CommandWord(f) = <<"P","I","N","G">> -> rs = <<BulkString(<<"P","O","N","G">>)>>
      [] CommandWord(f) = <<"E","C","H","O">> -> rs = <<f.v[2]>>
      [] CommandWord(f) = <<"S","E","T">> -> rs = <<SimpleString(<<"O","K">>)>>
      [] CommandWord(f) = <<"G","E","T">> ->
           Len(rs) = 1 /\ rs[1].t \in {"BulkString", "NullBulkString"}
      [] CommandWord(f) = <<"I","N","F","O">> -> Len(rs) = 1 /\ rs[1].t = "BulkString"
      [] CommandWord(f) = <<"P","S","Y","N","C">> ->
           /\ Len(rs) = 2
           /\ rs[1] = ExpectedFullResync
           /\ rs[2].t = "RdbFile"
      [] OTHER -> FALSE

ReplyFrameCount(f) == IF CommandWord(f) = <<"P","S","Y","N","C">> THEN 2 ELSE 1

RECURSIVE Matches(_, _)
\* rs is, in order, the replies of the command frames fs, each exactly once
Matches(fs, rs) ==
    IF Len(fs) = 0 THEN Len(rs) = 0
    ELSE /\ Len(rs) >= ReplyFrameCount(Head(fs))
         /\ Answers(Head(fs), SubSeq(rs, 1, ReplyFrameCount(Head(fs))))
         /\ Matches(Tail(fs), SubSeq(rs, ReplyFrameCount(Head(fs)) + 1, Len(rs)))

RECURSIVE ReplyFrames(_)
\* The reply frames written to a socket, in order (forwarded events left out)
ReplyFrames(sk) ==
    IF Len(sk) = 0 THEN <<>>
    ELSE IF Head(sk).ev = 0 THEN <<Head(sk).f>> \o ReplyFrames(Tail(sk))
         ELSE ReplyFrames(Tail(sk))

\* A connection ended by an error writes nothing in the step that ends it,
\* writes nothing afterwards and stays ended
SilentEnd ==
    \A c \in Conns :
        /\ ErrorEnded(c)' => sock'[c] = sock[c]
        /\ ErrorEnded(c) => pc'[c] = pc[c] /\ batch'[c] = <<>>

\* C16: when a connection hits a codec or parse error, nothing is written
\* for the offending frame, neither an error frame nor a reply: the socket
\* holds the replies of the frames received before the first offending one
\* and nothing else, and the task has ended for good.
C16_NoReplyOnParseError ==
    /\ [](\A c \in StoreConns :
             ErrorEnded(c) =>
                 Matches(SubSeq(recvd[c], 1, FirstOffending(recvd[c]) - 1),
                         ReplyFrames(sock[c])))
    /\ [][SilentEnd]_vars

\* An unknown command followed in the same read by an ECHO: the task has
\* ended and neither frame was answered
C16_Witness ==
    /\ pc["c1"] = "error"
    /\ recvd["c1"] = <<UnknownFrame, EchoA>>
    /\ sock["c1"] = <<>>

\* The number of frames of a connection that were answered: those taken from
\* the reads, but the SET whose OK is not written yet
Answered(c) ==
    Len(recvd[c]) - Len(batch[c]) - (IF pc[c] = "publish" THEN 1 ELSE 0)

\* C17: on every connection the reply frames on the socket are, in the order
\* in which the commands were received, the reply frames of the commands
\* executed so far, each command's frames together and exactly once; a
\* connection ended by an error holds the replies of the commands before the
\* one that failed.
C17_RepliesInCommandOrder ==
    \A c \in StoreConns :
        IF ErrorEnded(c)
        THEN \E k \in 0..Len(recvd[c]) :
                Matches(SubSeq(recvd[c], 1, k), ReplyFrames(sock[c]))
        ELSE Matches(SubSeq(recvd[c], 1, Answered(c)), ReplyFrames(sock[c]))

\* Three commands with different replies, the last one answered by two frames
C17_Witness ==
    /\ recvd["c1"] = <<EchoA, SetPlain, PsyncFrame>>
    /\ Len(sock["c1"]) = 4
    /\ pc["c1"] = "replicating"

(***************************************************************************)
(* Properties of the codec (checked under CodecSpec).                      *)
(***************************************************************************)
RECURSIVE HasSnapshot(_)
\* The frame is a Snapshot or an Array that holds one at some depth
HasSnapshot(f) ==
    \/ f.t = "RdbFile"
    \/ f.t = "Array" /\ \E i \in 1..Len(f.v) : HasSnapshot(f.v[i])

\* C18: for every sequence of frames that holds no Snapshot, decoding the
\* concatenation of their encodings yields exactly that sequence, with
\* nothing left over.
C18_RoundTrip ==
    (IsSome(decoded) /\ \A i \in 1..Len(Unwrap(wire).frames) :
                            ~HasSnapshot(Unwrap(wire).frames[i])) =>
        Unwrap(decoded) = [r |-> "Ok", messages |-> Unwrap(wire).frames]

\* The bytes that follow the payload of frame i of fs on the wire
BytesAfterPayload(fs, i) ==
    (IF fs[i].t = "BulkString" THEN <<"\r", "\n">> ELSE <<>>)
        \o ConcatData(SubSeq(fs, i + 1, Len(fs)))

\* What a $-prefixed frame is to be decoded as: a Snapshot exactly when its
\* declared length is above 5, its payload begins with REDIS and no CR LF
\* follows the payload
ExpectedKind(payload, after) ==
    IF /\ Len(payload) > 5
       /\ SubSeq(payload, 1, 5) = <<"R","E","D","I","S">>
       /\ ~(Len(after) >= 2 /\ SubSeq(after, 1, 2) = <<"\r", "\n">>)
    THEN "RdbFile"
    ELSE "BulkString"

\* C19: in a read made of $-prefixed frames, each frame is decoded as a
\* Snapshot if and only if its declared length is above 5, its payload begins
\* with REDIS and the payload is not followed by CR LF, and as a BulkString
\* whose CR LF is consumed in every other case; the frame that follows is
\* decoded next.
C19_SnapshotRule ==
    LET fs == Unwrap(wire).frames IN
    (IsSome(decoded) /\ \A i \in 1..Len(fs) : fs[i].t \in {"BulkString", "RdbFile"}) =>
        /\ Unwrap(decoded).r = "Ok"
        /\ Len(Unwrap(decoded).messages) = Len(fs)
        /\ \A i \in 1..Len(fs) :
              Unwrap(decoded).messages[i] =
                  [t |-> ExpectedKind(fs[i].v, BytesAfterPayload(fs, i)), v |-> fs[i].v]

(***************************************************************************)
(* Properties of INFO replication (checked under ProcSpec).                *)
(***************************************************************************)
\* str holds part as a contiguous substring
Contains(str, part) ==
    \E i \in 0..(Len(str) - Len(part)) : SubSeq(str, i + 1, i + Len(part)) = part

\* The role a process reports: master when started without replicaof
ExpectedRole ==
    IF fpc = "off" THEN <<"r","o","l","e",":","m","a","s","t","e","r">>
    ELSE <<"r","o","l","e",":","s","l","a","v","e">>

\* m is a BulkString holding the role, the replication id and the offset
IsReplicationInfo(m) ==
    /\ m.t = "BulkString"
    /\ Contains(m.v, ExpectedRole)
    /\ Contains(m.v, <<"m","a","s","t","e","r","_","r","e","p","l","i","d",":">>
                        \o master_replid)
    /\ Contains(m.v, <<"m","a","s","t","e","r","_","r","e","p","l","_",
                       "o","f","f","s","e","t",":","0">>)

\* What INFO replication would return in the current state
InfoNow == handle(store, now, Role, InfoFrame)

\* Every INFO replication answered so far on a client connection, and the one
\* that would be answered now, is one replication-info BulkString
InfoAnswers ==
    /\ InfoNow.k = "Reply"
    /\ Len(InfoNow.replies) = 1
    /\ IsReplicationInfo(InfoNow.replies[1])
    /\ \A c \in ProcConns :
          \A i \in 1..Len(ReplyFrames(sock[c])) :
              (i <= Len(recvd[c]) /\ recvd[c][i] = InfoFrame) =>
                  IsReplicationInfo(ReplyFrames(sock[c])[i])

\* C20: in every reachable state INFO replication returns one BulkString
\* containing role:, master_replid: and master_repl_offset:, with the role
\* master for a process started without replicaof and slave for one started
\* with it; no step of the program (command, replicated frame, handshake
\* step) changes what INFO replication reports.
C20_InfoReplication ==
    /\ [](InfoAnswers)
    /\ [][InfoNow' = InfoNow]_vars

\* A follower that has applied a replicated frame and answered a SET and
\* then an INFO replication from a client
C20_Witness ==
    /\ fpc # "off"
    /\ Len(fhandled) > 0
    /\ recvd["c1"] = <<SetPlain, InfoFrame>>
    /\ Len(ReplyFrames(sock["c1"])) = 2

(***************************************************************************)
(* Properties of the follower's apply path (checked under ChainSpec).      *)
(***************************************************************************)
\* The frame is a REPLCONF whose name is GETACK, in any letter case
IsGetAck(f) ==
    /\ f.t = "Array" /\ Len(f.v) >= 2
    /\ f.v[1].t = "BulkString" /\ to_uppercase(f.v[1].v) = REPLCONF
    /\ f.v[2].t = "BulkString" /\ to_uppercase(f.v[2].v) = GETACK

\* The frame is REPLCONF ACK <decimal number>
IsAck(f) ==
    /\ f.t = "Array" /\ Len(f.v) = 3
    /\ f.v[1] = BulkString(REPLCONF)
    /\ f.v[2] = BulkString(ACK)
    /\ f.v[3].t = "BulkString" /\ Len(f.v[3].v) > 0 /\ AllDigits(f.v[3].v)

RECURSIVE CountGetAcks(_)
CountGetAcks(fs) ==
    IF Len(fs) = 0 THEN 0
    ELSE (IF IsGetAck(Head(fs)) THEN 1 ELSE 0) + CountGetAcks(Tail(fs))

\* The frames the follower has written after its handshake
WrittenAfterHandshake == SubSeq(fout, Len(Handshake) + 1, Len(fout))

\* What the follower has written so far: the handshake steps reached, then
\* one ACK for each GETACK handled and nothing else
OnlyAcksWritten ==
    /\ SubSeq(fout, 1, Min(Len(fout), Len(Handshake)))
          = SubSeq(Handshake, 1, Min(Len(fout), Len(Handshake)))
    /\ Len(WrittenAfterHandshake) = CountGetAcks(fhandled)
    /\ \A i \in 1..Len(WrittenAfterHandshake) : IsAck(WrittenAfterHandshake[i])

\* A step of the apply path writes one frame for each GETACK it handles, so a
\* step that handles only SET and PING frames writes nothing
WritesPerStep ==
    /\ Len(fout') >= Len(fout) /\ SubSeq(fout', 1, Len(fout)) = fout
    /\ Len(fhandled') >= Len(fhandled)
    /\ Len(fout) >= Len(Handshake) =>
          Len(fout') - Len(fout)
             = CountGetAcks(SubSeq(fhandled', Len(fhandled) + 1, Len(fhandled')))

Replicable(f) ==
    \/ IsGetAck(f)
    \/ /\ f.t = "Array" /\ Len(f.v) > 0 /\ f.v[1].t = "BulkString"
       /\ to_uppercase(f.v[1].v) \in {PING, SET}

\* A step that handles exactly one frame, a command the apply path does not
\* accept, returns an error that ends the task and has no other effect
RefusedCleanly ==
    (Len(fhandled') = Len(fhandled) + 1 /\ ~Replicable(fhandled'[Len(fhandled')])) =>
        /\ fpc' = "failed"
        /\ store' = store
        /\ chan' = chan
        /\ fout' = fout

\* C22: on the follower apply path a replicated frame whose command is not
\* PING, SET or REPLCONF GETACK (ECHO, GET, INFO, PSYNC, WAIT, REPLCONF with
\* another name) yields a protocol error: the store is unchanged, nothing is
\* republished, no reply is sent, and the replication task ends (it is never
\* in its apply loop after such a frame was handled).
C22_OtherCommandsRefused ==
    /\ [](fpc = "apply" => \A i \in 1..Len(fhandled) : Replicable(fhandled[i]))
    /\ [][RefusedCleanly]_vars

(***************************************************************************)
(* Properties of SET and the broadcast channel (checked under ReplSpec).   *)
(***************************************************************************)
\* Connection c is between the db.set of a SET and its publish
Publishing(c) == pc[c] = "publish"

\* The SET that c is executing has been written to the store or overwritten
\* by a later SET of the same key
Stored(c) ==
    LET s == Unwrap(cur[c]) IN
    /\ s.cmd.key \in DOMAIN store
    /\ store[s.cmd.key].seq >= s.seq
    /\ store[s.cmd.key].seq = s.seq => store[s.cmd.key].value = s.cmd.value

\* The step that completes the SET of c: OK is written and the task goes on
\* with its batch, whether the channel has receivers or not
CompletesWithOk(c) ==
    (Publishing(c) /\ pc'[c] # pc[c]) =>
        /\ pc'[c] = "dispatch"
        /\ sock'[c] = Append(sock[c], [f |-> SimpleString(<<"O","K">>), ev |-> 0])
        /\ batch'[c] = batch[c]
        /\ store' = store
        /\ Receivers = {} => chan' = chan

\* C23: a SET executed while the broadcast channel has no subscriber succeeds
\* exactly as with subscribers: the store is updated, the reply is
\* SimpleString OK, and the failed publish raises no error.
C23_SetWithoutSubscribers ==
    /\ [](\A c \in Conns : Publishing(c) => (Stored(c) /\ ENABLED Publish(c)))
    /\ [][\A c \in Conns : CompletesWithOk(c)]_vars

\* A SET was answered OK while no connection had subscribed, and its value
\* is in the store
C23_Witness ==
    /\ Receivers = {}
    /\ chan = <<>>
    /\ sock["c1"] = <<[f |-> SimpleString(<<"O","K">>), ev |-> 0]>>
    /\ KeyK \in DOMAIN store
    /\ pc["c1"] = "serving"

(***************************************************************************)
(* Properties of the follower's republishing (checked under ChainSpec).    *)
(***************************************************************************)
\* The SETs among the frames the follower has handled, in order
RECURSIVE HandledSets(_)
HandledSets(fs) ==
    IF Len(fs) = 0 THEN <<>>
    ELSE IF parse_command(Head(fs)).r = "Ok" /\ parse_command(Head(fs)).cmd.c = "Set"
         THEN <<Head(fs)>> \o HandledSets(Tail(fs))
         ELSE HandledSets(Tail(fs))

\* The frames a session of the follower has written from the channel
RECURSIVE EventFrames(_)
EventFrames(sk) ==
    IF Len(sk) = 0 THEN <<>>
    ELSE IF Head(sk).ev > 0 THEN <<Head(sk).f>> \o EventFrames(Tail(sk))
         ELSE EventFrames(Tail(sk))

\* C24: every SET the follower applies from the replication stream is written
\* to the follower's store and then republished on the follower's channel as
\* the same Array frame that was received, so that a session attached to the
\* follower receives that frame.
C24_RepublishedAsReceived ==
    /\ Len(HandledSets(fhandled)) = nset
    /\ \A i \in 1..Len(chan) :
          /\ chan[i].seq <= nset
          /\ chan[i].frame = HandledSets(fhandled)[chan[i].seq]
    /\ \A c \in ChainConns :
          \A i \in 1..Len(EventFrames(sock[c])) :
              EventFrames(sock[c])[i] \in Range(HandledSets(fhandled))

(***************************************************************************)
(* Properties of the decoder on malformed reads (checked under             *)
(* MalformedSpec).                                                         *)
(***************************************************************************)
\* C25: decoding a buffer that contains an unknown type byte, a non-digit in a
\* length or integer field, a bulk length that overruns the remaining buffer,
\* or a frame cut off before its terminator returns a decode error value: no
\* frames are returned and the decoder does not panic.
C25_MalformedIsAnError ==
    IsSome(decoded) => Unwrap(decoded) = [r |-> "Err"]

(***************************************************************************)
(* Properties of the commands on the leader path (checked under CmdSpec).  *)
(***************************************************************************)
\* Connection c dispatches the first frame of its batch in this step
Dispatching(c) == pc[c] = "dispatch" /\ batch[c] # <<>> /\ batch'[c] # batch[c]

\* The frames whose arity is malformed for their command, and the frame whose
\* command word is unknown
MalformedArity == {EchoNoArg, GetNoArg, SetNoValue, SetOptNoValue, SetPxNonDecimal}

\* Dispatching a malformed or unknown command ends in an error value, with
\* the store and the channel as they were and nothing written
RefusedByParser(c) ==
    (Dispatching(c) /\ Head(batch[c]) \in MalformedArity \cup {UnknownFrame}) =>
        /\ pc'[c] = "error"
        /\ store' = store
        /\ chan' = chan
        /\ sock' = sock

\* C26: parsing an Array frame whose arity is malformed for its command (ECHO
\* or GET with no argument, SET with fewer than two arguments, SET with an
\* option word but no value, a non-decimal PX value) yields a parse error
\* value, and an unknown command word an unknown-command error; in both cases
\* the store is unchanged and nothing is published.
C26_MalformedCommandsRefused == [][\A c \in CmdConns : RefusedByParser(c)]_vars

(***************************************************************************)
(* Properties of the subscriptions (checked under ReplSpec).               *)
(***************************************************************************)
\* The frames of c that have been dispatched so far
Dispatched(c) == SubSeq(recvd[c], 1, Len(recvd[c]) - Len(batch[c]))

\* A subscription is held only by a connection that is Replicating, whose
\* flag is set and on which a PSYNC was dispatched
SubscribedOnlyAfterPsync ==
    \A c \in Conns :
        /\ IsSome(rx[c]) => (pc[c] = "replicating" /\ ack[c])
        /\ ack[c] => \E i \in 1..Len(Dispatched(c)) :
                        parse_command(Dispatched(c)[i]) = Ok([c |-> "Psync"])
        /\ pc[c] \in {"idle", "serving", "dispatch", "publish"} => ~IsSome(rx[c])

\* A step changes the flag or the subscription of the connection that takes
\* it and of no other: the flag is set by the dispatch of a PSYNC, the
\* subscription is created by the transition to Replicating
UpgradeIsLocal ==
    \A d \in Conns :
        /\ ack'[d] # ack[d] =>
              /\ Dispatching(d) /\ parse_command(Head(batch[d])) = Ok([c |-> "Psync"])
              /\ \A e \in Conns \ {d} : ack'[e] = ack[e]
        /\ (IsSome(rx'[d]) /\ ~IsSome(rx[d])) =>
              /\ pc[d] = "dispatch" /\ pc'[d] = "replicating" /\ ack[d]
              /\ \A e \in Conns \ {d} : rx'[e] = rx[e] /\ pc'[e] = pc[e]

\* C27: in every reachable state a connection holds a broadcast subscription
\* only if a PSYNC was dispatched on that same connection and it has
\* transitioned to Replicating; a connection in Serving holds no subscription,
\* and a PSYNC on one connection never upgrades another connection.
C27_SubscriptionOnlyAfterPsync ==
    /\ [](SubscribedOnlyAfterPsync)
    /\ [][UpgradeIsLocal]_vars

\* One connection has upgraded while another, which has executed a SET, is
\* still serving without a subscription
C27_Witness ==
    /\ pc["c1"] = "replicating" /\ IsSome(rx["c1"])
    /\ pc["c2"] = "serving" /\ recvd["c2"] = <<SetPlain>> /\ ~IsSome(rx["c2"])
    /\ ~ack["c2"]

\* The frames a session has written from the channel are the events at the
\* positions that follow its subscription point, one after the other
ContiguousRun(c) ==
    LET written == SelectSeq(sock[c], LAMBDA w : w.ev > 0) IN
    \A n \in 1..Len(written) :
        /\ written[n].ev = Unwrap(sub[c]) + n
        /\ written[n].f = chan[Unwrap(sub[c]) + n].frame

\* A session that is more than the backlog behind writes nothing more: its
\* next step ends it
LaggedTerminates ==
    \A c \in Conns :
        (pc[c] = "replicating" /\ Lagged(Unwrap(rx[c]), Len(chan))) =>
            /\ sock'[c] = sock[c]
            /\ pc'[c] \in {"replicating", "lagged"}
            /\ rx'[c] # rx[c] => pc'[c] = "lagged"

\* C28: a replication session that falls more than the backlog behind
\* terminates instead of skipping events: what is written to any session's
\* socket is always a contiguous, gap-free run of the publish sequence that
\* starts at the session's subscription point.
C28_NoSkippedEvents ==
    /\ [](\A c \in Sessions : ContiguousRun(c))
    /\ [][LaggedTerminates]_vars

\* A session has fallen more than the backlog behind the channel and ended
\* without writing any of the events published since it subscribed
C28_Witness ==
    \E c \in Sessions :
        /\ pc[c] = "lagged"
        /\ Delivered(c) = <<>>
        /\ Len(chan) - Unwrap(sub[c]) > Capacity

\* The frame is a SET whose PX value parses but has no time delta
StorageFailure(f) ==
    /\ parse_command(f).r = "Ok"
    /\ parse_command(f).cmd.c = "Set"
    /\ IsSome(parse_command(f).cmd.expire_time)
    /\ ~IsSome(try_milliseconds(Unwrap(parse_command(f).cmd.expire_time)))

\* The dispatch of such a SET returns the error: no entry is written or
\* removed, no event is published or pending, and no reply is written
FailsWithoutEffect(c) ==
    (Dispatching(c) /\ StorageFailure(Head(batch[c]))) =>
        /\ pc'[c] = "error"
        /\ store' = store
        /\ chan' = chan
        /\ cur' = cur
        /\ sock' = sock

\* C29: when a SET fails with the storage error because its PX value cannot
\* be turned into a time delta, the previous entry for the key (or its
\* absence) is unchanged, no event is published and no OK reply is produced.
C29_StorageErrorHasNoEffect == [][\A c \in CmdConns : FailsWithoutEffect(c)]_vars

\* With a replication session attached, a connection has set k, then sent a
\* SET of k whose PX has no time delta: k keeps its value, one event was
\* published and one OK written
C29_Witness ==
    /\ pc["c1"] = "replicating"
    /\ recvd["c2"] = <<SetPlain, SetPxMin>>
    /\ pc["c2"] = "error"
    /\ store[KeyK].value = ValA
    /\ Len(chan) = 1
    /\ Len(sock["c2"]) = 1

\* The upper-cased command word of the frame c dispatches in this step
DispatchedWord(c) ==
    LET f == Head(batch[c]) IN
    IF f.t = "Array" /\ Len(f.v) > 0 /\ f.v[1].t = "BulkString"
    THEN to_uppercase(f.v[1].v) ELSE <<>>

\* PING, ECHO, GET, INFO and REPLCONF change neither the store nor the channel
\* nor any flag, and start no publish
ReadOnlyCommand(c) ==
    (Dispatching(c) /\ DispatchedWord(c) \in {PING, ECHO, GET, INFO, REPLCONF}) =>
        /\ store' = store
        /\ chan' = chan
        /\ ack' = ack
        /\ cur' = cur

\* The store changes only in the dispatch of a SET, the channel only in the
\* publish that completes a SET, a flag only in the dispatch of a PSYNC, and
\* then only the flag of the connection that dispatched it
OnlySetAndPsync ==
    /\ store' # store => \E c \in CmdConns : Dispatching(c) /\ DispatchedWord(c) = SET
    /\ chan' # chan =>
          \E c \in CmdConns :
              /\ pc[c] = "publish" /\ pc'[c] = "dispatch"
              /\ parse_command(Unwrap(cur[c]).orig).cmd.c = "Set"
    /\ ack' # ack =>
          \E c \in CmdConns :
              /\ Dispatching(c) /\ DispatchedWord(c) = PSYNC
              /\ ack' = [ack EXCEPT ![c] = TRUE]

\* C30: PING, ECHO, GET, INFO and REPLCONF dispatched on the leader path leave
\* the store unchanged, publish no event and leave the connection's flag
\* unchanged; only SET mutates the store or publishes, and only PSYNC sets
\* the flag.
C30_OnlySetAndPsyncHaveEffects ==
    [][(\A c \in CmdConns : ReadOnlyCommand(c)) /\ OnlySetAndPsync]_vars

\* With a session attached, a connection has been answered a PING and a
\* REPLCONF: the store and the channel are empty and its flag is not set
C30_Witness ==
    /\ pc["c1"] = "replicating"
    /\ recvd["c2"] = <<get_ping_command, ReplconfCapa>>
    /\ Len(sock["c2"]) = 2
    /\ DOMAIN store = {}
    /\ chan = <<>>
    /\ ~ack["c2"]

(***************************************************************************)
(* Properties of a replication session (checked under ReplSpec).           *)
(***************************************************************************)
\* A connection that is Replicating has no frame left to dispatch and no SET
\* in progress
NothingToDispatch ==
    \A c \in Conns : pc[c] = "replicating" => (batch[c] = <<>> /\ cur[c] = None)

\* What a step may do to a connection that is Replicating: nothing is read
\* from its socket or dispatched; a frame it writes is the next event of the
\* channel after its receiver's position; it ends only by a failed write of
\* a pending event or by lag
SessionStep ==
    \A c \in Conns :
        pc[c] = "replicating" =>
            LET next == Unwrap(rx[c]) + 1 IN
            /\ recvd'[c] = recvd[c] /\ batch'[c] = batch[c]
            /\ cur'[c] = cur[c] /\ lastGet'[c] = lastGet[c] /\ ack'[c] = ack[c]
            /\ sock'[c] # sock[c] =>
                  /\ next <= Len(chan)
                  /\ sock'[c] = Append(sock[c], [f |-> chan[next].frame, ev |-> next])
                  /\ rx'[c] = Some(next)
                  /\ pc'[c] = "replicating"
            /\ pc'[c] # "replicating" =>
                  /\ sock'[c] = sock[c]
                  /\ \/ pc'[c] = "io_error" /\ next <= Len(chan)
                     \/ pc'[c] = "lagged" /\ Lagged(Unwrap(rx[c]), Len(chan))

\* C31: a connection in Replicating never reads from its socket and never
\* dispatches a command; every frame it writes is a WriteEvent received from
\* the broadcast channel, written in the order received, and the session
\* ends only on a socket error or on lag (the channel is never closed while
\* the process runs).
C31_SessionOnlyForwards ==
    /\ [](NothingToDispatch)
    /\ [][SessionStep]_vars

\* A session has written an event of the channel and then ended in a failed
\* write of the next one
C31_Witness ==
    \E c \in Sessions :
        /\ pc[c] = "io_error"
        /\ Len(Delivered(c)) >= 1
        /\ Len(chan) > Unwrap(sub[c]) + Len(Delivered(c))

(***************************************************************************)
(* Properties of the upgrade window (checked under WindowSpec).            *)
(***************************************************************************)
\* The store mutation numbered k is still between db.set and its publish
AwaitingPublish(k) == \E d \in Conns : IsSome(cur[d]) /\ Unwrap(cur[d]).seq = k

\* The event of the store mutation numbered k is on the channel behind the
\* subscription point of session c, so that c receives it
ReachesSession(k, c) ==
    /\ IsSome(sub[c])
    /\ \E i \in 1..Len(chan) : chan[i].seq = k /\ i > Unwrap(sub[c])

\* C32: no write is lost in the upgrade window: every SET the leader accepts
\* from another connection after it has written the FULLRESYNC reply and the
\* snapshot to a follower's connection reaches that follower's session
\* (while the follower's task has not ended, the event is awaiting its
\* publish or is on the channel behind the session's subscription point).
C32_NoLossInUpgradeWindow ==
    (ReplyWritten("c1") /\ pc["c1"] \in {"dispatch", "replicating"}) =>
        \A k \in 1..nset : AwaitingPublish(k) \/ ReachesSession(k, "c1")

(***************************************************************************)
(* Properties of concurrent SETs (checked under ReplSpec).                 *)
(***************************************************************************)
\* The value a follower holds for a key after applying every event on the
\* channel, in channel order: the value of the last event on that key
LastPublished(key) ==
    LET on == {i \in 1..Len(chan) : EventKey(chan[i]) = key}
        last == CHOOSE i \in on : \A j \in on : j <= i
    IN parse_command(chan[last].orig).cmd.value

\* Every SET accepted since the channel got its first receiver has been published
AllPublished == (\A c \in Conns : cur[c] = None) /\ Len(chan) = nset

\* C33: for any two SETs on the same key accepted from different
\* connections, the order of their events on the broadcast channel is the
\* order in which their store mutations were applied, so that once both are
\* published the last event on the key carries the value the leader holds.
C33_PublishOrderIsStoreOrder ==
    /\ \A i, j \in 1..Len(chan) :
          (i < j /\ EventKey(chan[i]) = EventKey(chan[j])) => chan[i].seq < chan[j].seq
    /\ (AllPublished /\ Len(chan) > 0) => LastPublished(KeyK) = store[KeyK].value

(***************************************************************************)
(* Properties of overwriting (checked under StoreSpec).                    *)
(***************************************************************************)
\* The entry a SET command accepted at time t as store mutation seq leaves
\* under its key: its value, and its own expiry or none
EntryOf(command, t, seq) ==
    [value |-> command.value,
     expire |-> IF IsSome(command.expire_time)
                THEN Some(t + Unwrap(command.expire_time)) ELSE None,
     seq |-> seq]

\* A step that mutates the store is the dispatch of a SET, and it leaves
\* under the key the entry of that SET alone, whatever was there before
SetReplacesEntry ==
    nset' # nset =>
        \E c \in Conns :
            /\ Dispatching(c)
            /\ parse_command(Head(batch[c])).r = "Ok"
            /\ parse_command(Head(batch[c])).cmd.c = "Set"
            /\ LET command == parse_command(Head(batch[c])).cmd IN
               store' = Insert(store, command.key, EntryOf(command, now, nset + 1))

\* A GET sees the last SET on its key only: its value at every time when
\* that SET had no PX, and its value up to and including its own expiry,
\* NullBulkString afterwards, when it had one
GetSeesLastSetOnly ==
    \A g \in Gets :
        IsSome(g.seen) =>
            IF IsSome(Unwrap(g.seen).px)
            THEN g.reply = (IF g.at <= SeenExpiry(g) THEN SeenValue(g) ELSE NullBulkString)
            ELSE g.reply = SeenValue(g)

\* C34: a SET replaces the whole entry: after SET k v1 PX t followed by
\* SET k v2 without PX, GET k returns v2 at every later time, and after
\* SET k v1 followed by SET k v2 PX t the entry expires according to t.
C34_SetReplacesWholeEntry ==
    /\ [](GetSeesLastSetOnly)
    /\ [][SetReplacesEntry]_vars

\* A connection has sent SET k b PX 1, then SET k a, then GET k; the second
\* SET was accepted at time 0 and the GET, evaluated at time 2, after the
\* expiry of the first SET, returned a
C34_Witness ==
    /\ recvd["c1"] = <<SetPx1, SetPlain, GetK>>
    /\ recvd["c2"] = <<>>
    /\ IsSome(lastGet["c1"])
    /\ Unwrap(lastGet["c1"]).at = 2
    /\ Unwrap(Unwrap(lastGet["c1"]).seen).at = 0
    /\ Unwrap(lastGet["c1"]).reply = ValA

(***************************************************************************)
(* Properties of the SET options (checked under OptionSpec).               *)
(***************************************************************************)
\* The frame is a SET whose fourth element is the option word PX, followed
\* by a decimal string
HasPxOption(f) ==
    /\ Len(f.v) >= 5
    /\ f.v[4].t = "BulkString" /\ to_uppercase(f.v[4].v) = PX
    /\ f.v[5].t = "BulkString" /\ IsSome(parse_i64(f.v[5].v))

\* The dispatch of a SET stores an entry with an expiry only when the frame
\* carries the option PX
ExpiryOnlyFromPx ==
    \A c \in Conns :
        (Dispatching(c) /\ nset' # nset) =>
            LET f == Head(batch[c]) IN
            IsSome(store'[parse_command(f).cmd.key].expire) => HasPxOption(f)

\* C35: a SET stores an expiry only when its fourth element is the option
\* word PX followed by a decimal string of milliseconds; a SET whose fourth
\* element is any other option word is rejected or stored without expiry,
\* never stored with that option's argument taken as PX milliseconds.
C35_ExpiryOnlyFromPx == [][ExpiryOnlyFromPx]_vars

(***************************************************************************)
(* Properties of the follower's listener (checked under ProcSpec).         *)
(***************************************************************************)
\* In a follower process a step that changes the store, or that puts an
\* event on the channel, is a step of the replication client handling a
\* frame of the stream
OnlyStreamMutates ==
    Role = "Follower" =>
        /\ store' # store => fhandled' # fhandled
        /\ nset' # nset => fhandled' # fhandled
        /\ chan' # chan => fhandled' # fhandled
        /\ \A c \in Conns : pc'[c] # "publish"

\* C36: a process in the Follower role changes its store only by applying
\* frames from the replication stream: a SET received from an ordinary client
\* connection on the follower's listener does not mutate the follower's
\* store and is not published on its broadcast channel.
C36_FollowerStoreFromStreamOnly == [][OnlyStreamMutates]_vars

(***************************************************************************)
(* Properties of a read that does not decode (checked under PartialSpec).  *)
(***************************************************************************)
\* A read whose bytes hold a malformed or incomplete frame executes nothing
\* and writes nothing, whatever well-formed frames precede the bad one: the
\* task ends with no frame to dispatch
BadReadHasNoEffect ==
    (wire' # wire /\ Unwrap(wire').kind # "whole") =>
        /\ \E c \in Conns : pc[c] = "serving" /\ pc'[c] \in {"error", "panic"}
        /\ batch' = batch /\ recvd' = recvd
        /\ store' = store /\ nset' = nset /\ chan' = chan /\ cur' = cur
        /\ sock' = sock

\* A task that has ended has no frame left to dispatch
EndedHasNoBatch ==
    \A c \in Conns : pc[c] \in {"error", "panic"} => (batch[c] = <<>> /\ cur[c] = None)

\* C37: decoding of one read is all-or-nothing: if any frame in the bytes
\* returned by a single socket read is malformed or incomplete, no command
\* from that read is executed (no store mutation, no publish) and no reply
\* for that read is written, even for well-formed frames that precede the
\* bad one.
C37_DecodeAllOrNothing ==
    /\ [](EndedHasNoBatch)
    /\ [][BadReadHasNoEffect]_vars

(***************************************************************************)
(* Properties of a leader and its follower (checked under PairLive).       *)
(***************************************************************************)
\* What a GET of the key answers on the follower's listener and on the leader's
FollowerGet == handle(peer.store, now, "Follower", GetK).replies

LeaderGet == handle(store, now, "Leader", GetK).replies

\* C38: under fair scheduling, with no I/O error and no subscriber lag, every
\* SET accepted by the leader after a follower's session has subscribed is
\* eventually applied to that follower's store, so that a later GET of the
\* key on the follower's own listener returns the written value.
C38_EverySetApplied ==
    /\ \A n \in 1..MaxPairFrames : (nset >= n) ~> (peer.nset >= n)
    /\ []((nset > 0 /\ peer.nset = nset) => FollowerGet = LeaderGet)

\* Each reply the follower has read so far passed its validation
RepliesAccepted == fpc \notin {"failed", "panicked"}

\* Each read of the follower decodes to the frames the leader wrote
ReadsDecode ==
    \A i \in 1..Len(frecv) :
        parse_data(ConcatData(frecv[i])) = [r |-> "Ok", messages |-> frecv[i]]

\* The handshake is complete on both sides
HandshakeComplete == fpc = "apply" /\ pc["c1"] = "replicating"

\* C39: when a follower running this implementation connects to a leader
\* running this implementation and no I/O error occurs, the handshake always
\* completes: each leader reply (PONG, OK, OK, FULLRESYNC) passes the
\* follower's validation and the follower eventually reaches its apply loop
\* while the leader connection reaches Replicating, whether FULLRESYNC and
\* the snapshot arrive in one read or in two.
C39_HandshakeCompletes ==
    /\ [](RepliesAccepted /\ ReadsDecode)
    /\ <>[](HandshakeComplete)

\* The handshake is complete after the follower read FULLRESYNC alone and the
\* snapshot in a read of its own
C39_Witness ==
    /\ HandshakeComplete
    /\ Len(frecv) >= 5
    /\ frecv[4] = <<FullResyncReply>>
    /\ frecv[5][1] = get_rdb_file

====
